---- MODULE Spec2Model ----
(***************************************************************************)
(* The two text normalizers of the investment-analysis platform:           *)
(*   - the dashboard normalizer  _format_text_block  (streamlit_app.py)    *)
(*   - the workflow normalizer   _normalize_text_block  (workflow.py)      *)
(* A Python string is modelled as a sequence of one-character strings.     *)
(* Every re.sub pass is modelled by what Python's regex engine does:       *)
(* a left-to-right scan, the leftmost match wins, matches do not overlap,  *)
(* and look-behinds read the text the pass received.                       *)
(***************************************************************************)
EXTENDS Integers, Sequences, FiniteSets, TLC

(***************************************************************************)
(* Characters and character classes.                                       *)
(***************************************************************************)
Lower == {"a", "b", "c", "d", "e", "f", "g", "h", "i", "j", "k", "l", "m",
          "n", "o", "p", "q", "r", "s", "t", "u", "v", "w", "x", "y", "z"}

Upper == {"A", "B", "C", "D", "E", "F", "G", "H", "I", "J", "K", "L", "M",
          "N", "O", "P", "Q", "R", "S", "T", "U", "V", "W", "X", "Y", "Z"}

Digits == {"0", "1", "2", "3", "4", "5", "6", "7", "8", "9"}

\* [A-Za-z]
Letters == Lower \cup Upper

\* \w restricted to ASCII: letters, digits and the underscore
WordChars == Letters \cup Digits \cup {"_"}

\* \s that misses the tab
SpaceCharsWithoutTab == {" ", "\n", "\r"}

\* \s restricted to the whitespace the model's texts can hold
SpaceChars == {" ", "\t", "\n", "\r"}

\* The eight bullet glyphs, each one character, named by its code point:
\* bullet, white bullet, black small square, triangular bullet, hyphen
\* bullet, bullet operator, black circle, white circle.
BULLET_CHARS == {"U+2022", "U+25E6", "U+25AA", "U+2023", "U+2043", "U+2219",
                 "U+25CF", "U+25CB"}

\* [$ euro pound] of the dashboard's currency passes
DashCurrency == {"$", "EUR", "GBP"}

\* [,.;:%]
Punct == {",", ".", ";", ":", "%"}

isspace(c) == c \in SpaceChars

\* The character at position i, or "" (no character) outside the text.
At(s, i) == IF i >= 1 /\ i <= Len(s) THEN s[i] ELSE ""

(***************************************************************************)
(* String helpers of the Python runtime.                                   *)
(***************************************************************************)
RECURSIVE SkipClass(_, _, _)
\* The first position >= i whose character is not in class (Len(s)+1 if none):
\* where a greedy  [class]*  that starts at i stops.
SkipClass(s, i, class) ==
    IF i <= Len(s) /\ s[i] \in class THEN SkipClass(s, i + 1, class) ELSE i

SkipSpace(s, i) == SkipClass(s, i, SpaceChars)

RECURSIVE rstrip(_)
rstrip(s) ==
    IF s # <<>> /\ isspace(s[Len(s)]) THEN rstrip(SubSeq(s, 1, Len(s) - 1)) ELSE s

lstrip(s) == SubSeq(s, SkipSpace(s, 1), Len(s))

strip(s) == lstrip(rstrip(s))

RECURSIVE Spaces(_)
Spaces(n) == IF n <= 0 THEN <<>> ELSE <<" ">> \o Spaces(n - 1)

RECURSIVE Join(_, _)
\* sep.join(parts)
Join(parts, sep) ==
    IF parts = <<>> THEN <<>>
    ELSE IF Len(parts) = 1 THEN parts[1]
    ELSE parts[1] \o sep \o Join(Tail(parts), sep)

RECURSIVE IndexOf(_, _, _)
\* The first position >= i that holds the character c (Len(s)+1 if none)
IndexOf(s, c, i) ==
    IF i > Len(s) \/ s[i] = c THEN i ELSE IndexOf(s, c, i + 1)

RECURSIVE SplitOn(_, _)
\* text.split(c): the pieces between the occurrences of the character c
SplitOn(s, c) ==
    LET j == IndexOf(s, c, 1)
    IN  IF j > Len(s) THEN <<s>>
        ELSE <<SubSeq(s, 1, j - 1)>> \o SplitOn(SubSeq(s, j + 1, Len(s)), c)

\* ln.strip() is truthy
NonBlank(ln) == strip(ln) # <<>>

(***************************************************************************)
(* The patterns of the re.sub passes and their replacements.  A match      *)
(* operator gives the position just after the match that starts at i, or 0.*)
(***************************************************************************)
\* (?<!\n)(?<!^)\s*(BULLET)\s+   with re.MULTILINE
InlineBulletMatch(s, i) ==
    LET j == SkipSpace(s, i)
        k == SkipSpace(s, j + 1)
    IN  IF /\ i > 1
           /\ s[i - 1] # "\n"
           /\ At(s, j) \in BULLET_CHARS
           /\ k > j + 1
        THEN k ELSE 0

InlineBulletRepl(s, i, e) == <<"\n", s[SkipSpace(s, i)], " ">>

\* A whitespace run that starts at i: the position after it, else 0.
SpaceRun(s, i) == IF isspace(At(s, i)) THEN SkipSpace(s, i) ELSE 0

Delete(s, i, e) == <<>>
KeepFirst(s, i, e) == <<s[i]>>
OneSpace(s, i, e) == <<" ">>
SpaceAfter(s, i, e) == <<s[i], " ">>

\* (?<=\d)\s+(?=[A-Za-z$ euro pound %])
DigitUnitMatch(s, i) ==
    LET e == SpaceRun(s, i)
    IN  IF /\ e > 0
           /\ At(s, i - 1) \in Digits
           /\ At(s, e) \in Letters \cup DashCurrency \cup {"%"}
        THEN e ELSE 0

\* ([$ euro pound])\s+(?=\d)
CurrencyDigitMatch(s, i) ==
    LET e == SpaceRun(s, i + 1)
    IN  IF s[i] \in DashCurrency /\ e > 0 /\ At(s, e) \in Digits THEN e ELSE 0

\* A slip: (\d)\s+(\d), the look-ahead written as a group, takes the next
\* digit into the match, and the replacement \1 drops it.
DigitDigitMatchConsuming(s, i) ==
    LET e == SpaceRun(s, i + 1)
    IN  IF s[i] \in Digits /\ e > 0 /\ At(s, e) \in Digits THEN e + 1 ELSE 0

\* (\d)\s+(?=\d)
DigitDigitMatch(s, i) ==
    LET e == SpaceRun(s, i + 1)
    IN  IF s[i] \in Digits /\ e > 0 /\ At(s, e) \in Digits THEN e ELSE 0

\* (\d)\.\s+(\d)
DecimalMatch(s, i) ==
    LET e == SpaceRun(s, i + 2)
    IN  IF /\ s[i] \in Digits
           /\ At(s, i + 1) = "."
           /\ e > 0
           /\ At(s, e) \in Digits
        THEN e + 1 ELSE 0

\* A slip: the replacement written "\1." drops the digit after the point.
DecimalReplDropsDigit(s, i, e) == <<s[i], ".">>

DecimalRepl(s, i, e) == <<s[i], ".", s[e - 1]>>

\* \s+([,.;:%])
SpacePunctMatch(s, i) ==
    LET e == SpaceRun(s, i)
    IN  IF e > 0 /\ At(s, e) \in Punct THEN e + 1 ELSE 0

SpacePunctRepl(s, i, e) == <<s[e - 1]>>

\* (?<=[,.;:%])\s+(\*\*|__)
PunctEmphasisMatch(s, i) ==
    LET e == SpaceRun(s, i)
    IN  IF /\ e > 0
           /\ At(s, i - 1) \in Punct
           /\ At(s, e) \in {"*", "_"}
           /\ At(s, e + 1) = At(s, e)
        THEN e + 2 ELSE 0

PunctEmphasisRepl(s, i, e) == <<s[e - 2], s[e - 1]>>

\* ([,.;:%])(?!\s|$|[*_])
PunctNoSpaceMatch(s, i) ==
    IF /\ s[i] \in Punct
       /\ i < Len(s)
       /\ ~isspace(s[i + 1])
       /\ s[i + 1] \notin {"*", "_"}
    THEN i + 1 ELSE 0

\* A run of two or more spaces or tabs, line breaks left out.
SpacesMatchWithinLine(s, i) ==
    LET e == SkipClass(s, i, {" ", "\t"})
    IN  IF e >= i + 2 THEN e ELSE 0

\* \s{2,}
SpacesMatch(s, i) ==
    LET e == SpaceRun(s, i)
    IN  IF e >= i + 2 THEN e ELSE 0

\* text.replace("\r\n", "\n").replace("\r", "\n")
CrLfMatch(s, i) == IF s[i] = "\r" /\ At(s, i + 1) = "\n" THEN i + 2 ELSE 0
CrMatch(s, i) == IF s[i] = "\r" THEN i + 1 ELSE 0
Newline(s, i, e) == <<"\n">>

\* \$ without the look-behind
DollarMatchAlways(s, i) == IF s[i] = "$" THEN i + 1 ELSE 0

\* (?<!\\)\$
DollarMatch(s, i) == IF s[i] = "$" /\ At(s, i - 1) # "\\" THEN i + 1 ELSE 0
EscapeDollar(s, i, e) == <<"\\", "$">>

\* [\w.,$% euro pound]
DupClass == WordChars \cup {".", ",", "$", "%", "EUR", "GBP"}

\* ([\w.,$%..]+)\s+\1([\w.,$%..]+): the bounds <<j, k, m, e>> of a match at i:
\* group 1 is s[i..j-1], the whitespace s[j..k-1], the repeat s[k..m-1] and
\* group 2 s[m..e-1].
DupBounds(s, i) ==
    LET j == SkipClass(s, i, DupClass)
        k == SkipSpace(s, j)
        m == k + (j - i)
    IN  <<j, k, m, SkipClass(s, m, DupClass)>>

DupMatch(s, i) ==
    LET b == DupBounds(s, i)
    IN  IF /\ b[1] > i
           /\ b[2] > b[1]
           /\ b[3] <= Len(s)
           /\ SubSeq(s, b[2], b[3] - 1) = SubSeq(s, i, b[1] - 1)
           /\ b[4] > b[3]
        THEN b[4] ELSE 0

\* \1\2
DupRepl(s, i, e) ==
    LET b == DupBounds(s, i)
    IN  SubSeq(s, i, b[1] - 1) \o SubSeq(s, b[3], e - 1)

\* ([A-Za-z])(\d)
LetterDigitMatch(s, i) ==
    IF s[i] \in Letters /\ At(s, i + 1) \in Digits THEN i + 2 ELSE 0

\* (\d)([A-Za-z])
DigitLetterMatch(s, i) ==
    IF s[i] \in Digits /\ At(s, i + 1) \in Letters THEN i + 2 ELSE 0

\* \1 \2
SpaceBetween(s, i, e) == <<s[i], " ", s[i + 1]>>

\* (?<=\d)\s+(?=[A-Za-z$%])
FlowDigitUnitMatch(s, i) ==
    LET e == SpaceRun(s, i)
    IN  IF /\ e > 0
           /\ At(s, i - 1) \in Digits
           /\ At(s, e) \in Letters \cup {"$", "%"}
        THEN e ELSE 0

\* (?<=[$ euro pound])\s+(?=\d)
FlowCurrencyDigitMatch(s, i) ==
    LET e == SpaceRun(s, i)
    IN  IF /\ e > 0
           /\ At(s, i - 1) \in {"$", "EUR", "GBP"}
           /\ At(s, e) \in Digits
        THEN e ELSE 0

RECURSIVE LetterUnits(_, _, _, _, _)
\* The greedy  (?:[class]\s+)*  from p: <<units taken, position reached,
\* position of the last unit's letter>>.
LetterUnits(s, p, class, n, q) ==
    IF At(s, p) \in class /\ isspace(At(s, p + 1))
    THEN LetterUnits(s, SkipSpace(s, p + 1), class, n + 1, p)
    ELSE <<n, p, q>>

\* \b(?:[class]\s+){2,}[class]\b : when the letter after the last unit does
\* not end a word, the engine gives one unit back and ends on its letter.
SquashMatch(s, i, class) ==
    LET u == LetterUnits(s, i, class, 0, 0)
    IN  IF At(s, i) \notin class \/ At(s, i - 1) \in WordChars THEN 0
        ELSE IF /\ u[1] >= 2
                /\ At(s, u[2]) \in class
                /\ At(s, u[2] + 1) \notin WordChars
             THEN u[2] + 1
        ELSE IF u[1] >= 3 THEN u[3] + 1
        ELSE 0

SquashLowerMatch(s, i) == SquashMatch(s, i, Lower)
SquashUpperMatch(s, i) == SquashMatch(s, i, Upper)

NotBlankChar(c) == c # " "

\* match.group(0).replace(" ", "")
_squash(s, i, e) == SelectSeq(SubSeq(s, i, e - 1), NotBlankChar)

\* ([,.;:%])(?!\s)
FlowPunctNoSpaceMatch(s, i) ==
    IF s[i] \in Punct /\ ~isspace(At(s, i + 1)) THEN i + 1 ELSE 0

(***************************************************************************)
(* re.sub(pattern, repl, s).  MatchEnd(pattern, s, i) is the position just *)
(* after the match of the pattern that starts at position i, or 0 when the *)
(* pattern does not match there; Replacement(pattern, s, i, e) is the text *)
(* that replaces s[i..e-1].  No pattern of the program matches the empty   *)
(* string.                                                                 *)
(***************************************************************************)
MatchEnd(pattern, s, i) ==
    CASE pattern = "inline_bullet" -> InlineBulletMatch(s, i)
      [] pattern = "digit_unit" -> DigitUnitMatch(s, i)
      [] pattern = "currency_digit" -> CurrencyDigitMatch(s, i)
      [] pattern = "digit_digit" -> DigitDigitMatch(s, i)
      [] pattern = "decimal" -> DecimalMatch(s, i)
      [] pattern = "space_punct" -> SpacePunctMatch(s, i)
      [] pattern = "punct_emphasis" -> PunctEmphasisMatch(s, i)
      [] pattern = "punct_no_space" -> PunctNoSpaceMatch(s, i)
      [] pattern = "spaces" -> SpacesMatch(s, i)
      [] pattern = "crlf" -> CrLfMatch(s, i)
      [] pattern = "cr" -> CrMatch(s, i)
      [] pattern = "dollar" -> DollarMatch(s, i)
      [] pattern = "duplicate" -> DupMatch(s, i)
      [] pattern = "letter_digit" -> LetterDigitMatch(s, i)
      [] pattern = "digit_letter" -> DigitLetterMatch(s, i)
      [] pattern = "flow_digit_unit" -> FlowDigitUnitMatch(s, i)
      [] pattern = "flow_currency_digit" -> FlowCurrencyDigitMatch(s, i)
      [] pattern = "squash_lower" -> SquashLowerMatch(s, i)
      [] pattern = "squash_upper" -> SquashUpperMatch(s, i)
      [] pattern = "flow_punct_no_space" -> FlowPunctNoSpaceMatch(s, i)

Replacement(pattern, s, i, e) ==
    CASE pattern = "inline_bullet" -> InlineBulletRepl(s, i, e)
      [] pattern \in {"digit_unit", "flow_digit_unit", "flow_currency_digit"}
           -> Delete(s, i, e)
      [] pattern \in {"currency_digit", "digit_digit"} -> KeepFirst(s, i, e)
      [] pattern = "decimal" -> DecimalRepl(s, i, e)
      [] pattern = "space_punct" -> SpacePunctRepl(s, i, e)
      [] pattern = "punct_emphasis" -> PunctEmphasisRepl(s, i, e)
      [] pattern \in {"punct_no_space", "flow_punct_no_space"}
           -> SpaceAfter(s, i, e)
      [] pattern = "spaces" -> OneSpace(s, i, e)
      [] pattern \in {"crlf", "cr"} -> Newline(s, i, e)
      [] pattern = "dollar" -> EscapeDollar(s, i, e)
      [] pattern = "duplicate" -> DupRepl(s, i, e)
      [] pattern \in {"letter_digit", "digit_letter"} -> SpaceBetween(s, i, e)
      [] pattern \in {"squash_lower", "squash_upper"} -> _squash(s, i, e)

\* The positions of the text where the pattern matches.
MatchStarts(pattern, s) ==
    {j \in 1..Len(s) : MatchEnd(pattern, s, j) > j}

\* The leftmost match that starts at position i or later (0 if none).
FirstMatch(starts, i) ==
    IF \A j \in starts : j < i THEN 0
    ELSE CHOOSE j \in starts : j >= i /\ \A k \in starts : k >= i => j <= k

\* One step of the scan from position i: the text up to the next match j, the
\* replacement of that match, and the scan resumed after it (rest).
ReSubStep(pattern, s, i, j, rest) ==
    IF j = 0 THEN SubSeq(s, i, Len(s))
    ELSE SubSeq(s, i, j - 1)
            \o Replacement(pattern, s, j, MatchEnd(pattern, s, j))
            \o rest[MatchEnd(pattern, s, j)]

\* re.sub(pattern, repl, s): the leftmost non-overlapping matches, found from
\* left to right on the original text, each replaced; the rest is kept.
ReSubFrom(pattern, s, starts) ==
    LET result[i \in 1..(Len(s) + 1)] ==
            ReSubStep(pattern, s, i, FirstMatch(starts, i), result)
    IN  result[1]

ReSub(pattern, s) == ReSubFrom(pattern, s, MatchStarts(pattern, s))

RECURSIVE ApplyPasses(_, _)
\* Consecutive re.sub passes, each on the result of the one before.
ApplyPasses(patterns, s) ==
    IF patterns = <<>> THEN s
    ELSE ApplyPasses(Tail(patterns), ReSub(patterns[1], s))

(***************************************************************************)
(* The dashboard normalizer (streamlit_app.py).                            *)
(***************************************************************************)
\* ftfy's fix_text(text, normalization="NFKC"): an external step, which
\* leaves the texts of this model (ASCII and bullet glyphs) as they are.
fix_text(text) == text

_normalize_bullet_line(line) ==
    LET stripped == lstrip(line)
        remainder == Tail(stripped)
        indent == Len(line) - Len(stripped)
    IN  IF /\ stripped # <<>>
           /\ stripped[1] \in BULLET_CHARS
           /\ (remainder = <<>> \/ isspace(remainder[1]))
        THEN Spaces(indent) \o <<"-", " ">> \o lstrip(remainder)
        ELSE line

_separate_inline_bullets(text) == ReSub("inline_bullet", text)

\* _is_list_item with a numbered marker of exactly one digit
IsListItemOneDigit(line) ==
    LET stripped == lstrip(line)
    IN  \/ At(stripped, 1) \in {"-", "*", "+"} /\ At(stripped, 2) = " "
        \/ At(stripped, 1) \in BULLET_CHARS
        \/ /\ At(stripped, 1) \in Digits
           /\ At(stripped, 2) = "."
           /\ isspace(At(stripped, 3))
        \/ At(stripped, 1) = "#"

_is_list_item(line) ==
    LET stripped == lstrip(line)
        d == SkipClass(stripped, 1, Digits)
    IN  \/ At(stripped, 1) \in {"-", "*", "+"} /\ At(stripped, 2) = " "
        \/ At(stripped, 1) \in BULLET_CHARS
        \/ d > 1 /\ At(stripped, d) = "." /\ isspace(At(stripped, d + 1))
        \/ At(stripped, 1) = "#"

\* The eight substitutions of _clean_line, in the order of the code.
CleanLinePasses ==
    <<"digit_unit", "currency_digit", "digit_digit", "decimal", "space_punct",
      "punct_emphasis", "punct_no_space", "spaces">>

_clean_line(line) ==
    strip(ApplyPasses(CleanLinePasses, strip(_normalize_bullet_line(line))))

\* text.replace("\r\n", "\n").replace("\r", "\n")
NormalizeNewlines(text) == ApplyPasses(<<"crlf", "cr">>, text)

RECURSIVE SplitBlocks(_)
\* re.split(r"\n{2,}", text)
SplitBlocks(s) ==
    LET j == IndexOf(s, "\n", 1)
        e == SkipClass(s, j, {"\n"})
    IN  IF j > Len(s) THEN <<s>>
        ELSE IF e >= j + 2
             THEN <<SubSeq(s, 1, j - 1)>> \o SplitBlocks(SubSeq(s, e, Len(s)))
             ELSE LET rest == SplitBlocks(SubSeq(s, j + 1, Len(s)))
                  IN  <<SubSeq(s, 1, j) \o rest[1]>> \o Tail(rest)

RECURSIVE BulletLines(_)
\* [_normalize_bullet_line(ln) for ln in raw_lines]
BulletLines(lines) ==
    IF lines = <<>> THEN <<>>
    ELSE <<_normalize_bullet_line(lines[1])>> \o BulletLines(Tail(lines))

RECURSIVE CleanLines(_)
\* [_clean_line(ln) for ln in lines]
CleanLines(lines) ==
    IF lines = <<>> THEN <<>>
    ELSE <<_clean_line(lines[1])>> \o CleanLines(Tail(lines))

\* The lines of one raw block, blank lines dropped, bullets normalized.
BlockLines(raw_block) ==
    BulletLines(SelectSeq(SplitOn(raw_block, "\n"), NonBlank))

\* One pass of the block loop's body on the cleaned lines of a block: a list
\* block keeps one line per line, a prose block becomes one paragraph.
JoinCleaned(is_list, cleaned) ==
    IF is_list THEN Join(cleaned, <<"\n">>) ELSE strip(Join(cleaned, <<" ">>))

\* The rendering of the lines of a block.
RenderBlock(lines) ==
    JoinCleaned(\E n \in 1..Len(lines) : _is_list_item(lines[n]),
                CleanLines(SelectSeq(lines, NonBlank)))

\* if not lines: continue
RenderLines(lines) == IF lines = <<>> THEN <<>> ELSE <<RenderBlock(lines)>>

RECURSIVE RenderBlocks(_)
\* The block loop: blocks without lines are skipped.
RenderBlocks(raw_blocks) ==
    IF raw_blocks = <<>> THEN <<>>
    ELSE RenderLines(BlockLines(raw_blocks[1])) \o RenderBlocks(Tail(raw_blocks))

\* "\n\n".join(blocks)
JoinBlocks(blocks) == Join(blocks, <<"\n", "\n">>)

\* formatted: the blocks joined, whitespace runs collapsed, dollars escaped
FormatJoined(blocks) == ApplyPasses(<<"spaces", "dollar">>, JoinBlocks(blocks))

\* The blocks of the text after the newline and inline-bullet passes.
FormatBlocks(text) ==
    RenderBlocks(SplitBlocks(_separate_inline_bullets(NormalizeNewlines(fix_text(text)))))

_format_text_block(text) ==
    IF text = <<>> THEN <<>> ELSE strip(FormatJoined(FormatBlocks(text)))

(***************************************************************************)
(* The workflow normalizer (upsonic_investment_generator/workflow.py).     *)
(***************************************************************************)
RECURSIVE IndexOfBreak(_, _)
IndexOfBreak(s, i) ==
    IF i > Len(s) \/ s[i] \in {"\n", "\r"} THEN i ELSE IndexOfBreak(s, i + 1)

RECURSIVE splitlines(_)
\* text.splitlines(): a final line break opens no further, empty line
splitlines(s) ==
    IF s = <<>> THEN <<>>
    ELSE LET j == IndexOfBreak(s, 1)
             e == IF At(s, j) = "\r" /\ At(s, j + 1) = "\n" THEN j + 2 ELSE j + 1
         IN  IF j > Len(s) THEN <<s>>
             ELSE <<SubSeq(s, 1, j - 1)>> \o splitlines(SubSeq(s, e, Len(s)))

\* line.lstrip().startswith(("- ", "* ", "+ ", "1. ", "2. ", "3. ", "4. ", "5. "))
HasBulletPrefix(line) ==
    LET l == lstrip(line)
    IN  \/ At(l, 1) \in {"-", "*", "+"} /\ At(l, 2) = " "
        \/ At(l, 1) \in {"1", "2", "3", "4", "5"} /\ At(l, 2) = "." /\ At(l, 3) = " "

\* if paragraph: normalized.append(" ".join(paragraph).strip())
FlushParagraph(normalized, paragraph) ==
    IF paragraph # <<>>
    THEN Append(normalized, strip(Join(paragraph, <<" ">>)))
    ELSE normalized

RECURSIVE LineLoop(_, _, _)
\* The loop over the raw lines, and the flush that follows it.
LineLoop(lines, normalized, paragraph) ==
    IF lines = <<>> THEN FlushParagraph(normalized, paragraph)
    ELSE LET line == rstrip(lines[1])
             flushed == FlushParagraph(normalized, paragraph)
         IN  IF strip(line) = <<>>
             THEN LineLoop(Tail(lines),
                           IF flushed # <<>> /\ flushed[Len(flushed)] # <<>>
                           THEN Append(flushed, <<>>) ELSE flushed,
                           <<>>)
             ELSE IF HasBulletPrefix(line)
             THEN LineLoop(Tail(lines), Append(flushed, strip(line)), <<>>)
             ELSE LineLoop(Tail(lines), normalized, Append(paragraph, strip(line)))

RECURSIVE CleanEntries(_, _, _)
\* The loop that keeps at most one blank entry between two entries.
CleanEntries(normalized, cleaned, blank_pending) ==
    IF normalized = <<>> THEN cleaned
    ELSE IF normalized[1] = <<>>
    THEN CleanEntries(Tail(normalized),
                      IF ~blank_pending /\ cleaned # <<>>
                      THEN Append(cleaned, <<>>) ELSE cleaned,
                      TRUE)
    ELSE CleanEntries(Tail(normalized), Append(cleaned, normalized[1]), FALSE)

\* "\n".join(cleaned).strip()
JoinEntries(text) ==
    strip(Join(CleanEntries(LineLoop(splitlines(text), <<>>, <<>>), <<>>, FALSE),
               <<"\n">>))

\* The substitutions of _normalize_text_block, in the order of the code.
NormalizePasses ==
    <<"duplicate", "letter_digit", "digit_letter", "flow_digit_unit",
      "flow_currency_digit", "squash_lower", "squash_upper", "space_punct",
      "flow_punct_no_space", "spaces">>

_normalize_text_block(text) ==
    IF text = <<>> THEN <<>>
    ELSE strip(ApplyPasses(NormalizePasses, JoinEntries(text)))

(***************************************************************************)
(* The request model (models.py) and the stages of the workflow            *)
(* (workflow.py).  An Optional value is None or Some(value).               *)
(***************************************************************************)
None == <<>>

Some(x) == <<x>>

LowerSeq ==
    <<"a", "b", "c", "d", "e", "f", "g", "h", "i", "j", "k", "l", "m",
      "n", "o", "p", "q", "r", "s", "t", "u", "v", "w", "x", "y", "z">>

UpperSeq ==
    <<"A", "B", "C", "D", "E", "F", "G", "H", "I", "J", "K", "L", "M",
      "N", "O", "P", "Q", "R", "S", "T", "U", "V", "W", "X", "Y", "Z">>

\* str.upper() on one character
UpperChar(c) ==
    IF c \in Lower THEN UpperSeq[CHOOSE n \in 1..26 : LowerSeq[n] = c] ELSE c

\* str.upper()
upper(s) == [n \in 1..Len(s) |-> UpperChar(s[n])]

\* The message of the ValueError that normalize_symbols raises
RequiredMessage == "At least one ticker symbol is required."

\* The message of the validation error (a ValueError) that the field
\* constraint min_items raises
TooShortMessage == "List should have at least 1 item after validation, not 0"

\* Field(..., min_items=1)
min_items == 1

\* The comprehension without its filter: blank entries are kept.
StripUpperAll(value) == [n \in 1..Len(value) |-> upper(strip(value[n]))]

\* [symbol.strip().upper() for symbol in value if symbol.strip()]
StripUpperNonBlank(value) ==
    [n \in 1..Len(SelectSeq(value, NonBlank)) |->
        upper(strip(SelectSeq(value, NonBlank)[n]))]

\* The validator of the symbols field: the normalized list, or the error.
normalize_symbols(value) ==
    IF StripUpperNonBlank(value) = <<>>
    THEN [raised |-> Some(RequiredMessage), value |-> <<>>]
    ELSE [raised |-> None, value |-> StripUpperNonBlank(value)]

\* WorkflowRequest(symbols=..., write_reports=...): the field constraint is
\* checked first and the validator runs on a list that passed it; a missing
\* write_reports (None) takes the default, False.
WorkflowRequest(symbols, write_reports) ==
    IF Len(symbols) < min_items
    THEN [raised |-> Some(TooShortMessage), symbols |-> <<>>,
          write_reports |-> FALSE]
    ELSE [raised |-> normalize_symbols(symbols).raised,
          symbols |-> normalize_symbols(symbols).value,
          write_reports |->
              IF write_reports = None THEN FALSE ELSE write_reports[1]]

\* "if write_reports:" in place of "if write_reports is not None:"
OverrideOnlyWhenTrue(request, write_reports) ==
    IF write_reports = Some(TRUE)
    THEN [request EXCEPT !.write_reports = TRUE]
    ELSE request

\* if write_reports is not None: request.write_reports = write_reports
OverrideWriteReports(request, write_reports) ==
    IF write_reports # None
    THEN [request EXCEPT !.write_reports = write_reports[1]]
    ELSE request

\* company.model_copy(update={...}) in the loop of _clean_stock_analysis
CleanCompany(company) ==
    [company EXCEPT
        !.market_research = _normalize_text_block(@),
        !.financial_analysis = _normalize_text_block(@),
        !.risk_assessment = _normalize_text_block(@)]

CleanCompanies(companies) ==
    [n \in 1..Len(companies) |-> CleanCompany(companies[n])]

_clean_stock_analysis(result) ==
    [result EXCEPT
        !.overview = _normalize_text_block(@),
        !.companies = CleanCompanies(@),
        !.key_recommendations = _normalize_text_block(@)]

\* _clean_investment_ranking that forgets the growth_potential field
CleanRankingKeepsGrowthRaw(ranking) ==
    [ranking EXCEPT
        !.ranked_companies = _normalize_text_block(@),
        !.investment_rationale = _normalize_text_block(@),
        !.risk_evaluation = _normalize_text_block(@)]

_clean_investment_ranking(ranking) ==
    [ranking EXCEPT
        !.ranked_companies = _normalize_text_block(@),
        !.investment_rationale = _normalize_text_block(@),
        !.risk_evaluation = _normalize_text_block(@),
        !.growth_potential = _normalize_text_block(@)]

_clean_portfolio_allocation(portfolio) ==
    [portfolio EXCEPT
        !.allocation_strategy = _normalize_text_block(@),
        !.investment_thesis = _normalize_text_block(@),
        !.risk_management = _normalize_text_block(@),
        !.final_recommendations = _normalize_text_block(@)]

\* The prompts: the values that the f-strings put into the fixed template.
StockPrompt(symbols) ==
    [agent |-> "Stock Analyst", symbols |-> symbols]

CompanyDetails(companies) ==
    [n \in 1..Len(companies) |->
        [company_name |-> companies[n].company_name,
         symbol |-> companies[n].symbol]]

RankingPrompt(stock_analysis) ==
    [agent |-> "Research Analyst",
     company_symbols |-> stock_analysis.company_symbols,
     company_details |-> CompanyDetails(stock_analysis.companies),
     key_recommendations |-> stock_analysis.key_recommendations]

PortfolioPrompt(ranking) ==
    [agent |-> "Investment Lead",
     ranked_companies |-> ranking.ranked_companies,
     investment_rationale |-> ranking.investment_rationale,
     risk_evaluation |-> ranking.risk_evaluation,
     growth_potential |-> ranking.growth_potential]

\* The reports: the values put under the fixed headings.
RenderCompany(company) ==
    [company_name |-> company.company_name,
     symbol |-> company.symbol,
     market_research |-> strip(company.market_research),
     financial_analysis |-> strip(company.financial_analysis),
     risk_assessment |-> strip(company.risk_assessment)]

_render_stock_analysis_report(result) ==
    [overview |-> strip(result.overview),
     companies |->
        [n \in 1..Len(result.companies) |-> RenderCompany(result.companies[n])],
     key_recommendations |-> strip(result.key_recommendations)]

_render_investment_ranking_report(ranking) ==
    [ranked_companies |-> ranking.ranked_companies,
     investment_rationale |-> ranking.investment_rationale,
     risk_evaluation |-> ranking.risk_evaluation,
     growth_potential |-> ranking.growth_potential]

_render_portfolio_report(portfolio) ==
    [allocation_strategy |-> portfolio.allocation_strategy,
     investment_thesis |-> portfolio.investment_thesis,
     risk_management |-> portfolio.risk_management,
     final_recommendations |-> portfolio.final_recommendations]

\* The headline of the summary: the symbols and the allocation strategy.
_summarize_workflow(symbols, portfolio) ==
    [symbols |-> symbols,
     allocation_strategy |-> strip(portfolio.allocation_strategy)]

\* The names of the three report files, in the order they are written.
ReportNames ==
    <<"stock_analyst_report.md", "investment_ranking_report.md",
      "portfolio_allocation_report.md">>

(***************************************************************************)
(* The state of one call of InvestmentWorkflow.run and of the construction *)
(* of its request.                                                         *)
(***************************************************************************)
VARIABLES
    wpc,             \* where the caller or run stands
    call,            \* the arguments: the symbols given to the request, the
                     \* request's write_reports and run's write_reports
    request,         \* the WorkflowRequest, once constructed
    error,           \* the exception raised, if any
    raw,             \* what each agent returned
    stock_analysis,  \* run's local stock_analysis
    ranking,         \* run's local ranking
    portfolio,       \* run's local portfolio
    prompts,         \* the prompts given to the agents, in order
    files,           \* the report files written, in order
    result           \* the WorkflowResult returned

wvars ==
    <<wpc, call, request, error, raw, stock_analysis, ranking, portfolio,
      prompts, files, result>>

\* Before any request is constructed and before run is called.
NoCall ==
    /\ wpc = "start"
    /\ call = [symbols |-> <<>>, write_reports |-> None, override |-> None]
    /\ request = None
    /\ error = None
    /\ raw = [stock |-> None, ranking |-> None, portfolio |-> None]
    /\ stock_analysis = None
    /\ ranking = None
    /\ portfolio = None
    /\ prompts = <<>>
    /\ files = <<>>
    /\ result = None

(***************************************************************************)
(* The state machine: a caller holds a text and calls one of the           *)
(* normalizers on it, and may then call the same normalizer on the result. *)
(***************************************************************************)
VARIABLES
    text,    \* the text the caller passes
    fn,      \* the function called: "none", "format", "normalize", "clean"
    pc,      \* "ready", "done" (fn has returned), "again" (fn ran on its result)
    out,     \* what fn returned for text
    again    \* what fn returned for out

nvars == <<text, fn, pc, out, again>>

(***************************************************************************)
(* The state of the dashboard session and of the /analyze call it makes.   *)
(***************************************************************************)
VARIABLES
    workflow_result,  \* st.session_state.workflow_result
    session_error,    \* st.session_state.error
    dpc,              \* "idle", "posted" (the request is on its way),
                      \* "running" (analyze awaits workflow.run), "responded"
                      \* (analyze has answered), "answered" (requests.post
                      \* has returned or raised)
    payload,          \* the JSON body of the request
    outcome,          \* what workflow.run did: returned or raised
    api_response,     \* what analyze answered
    reply,            \* what reached the dashboard
    clicks            \* the clicks on "Run Analysis" so far

dvars ==
    <<workflow_result, session_error, dpc, payload, outcome, api_response,
      reply, clicks>>

\* if "workflow_result" not in st.session_state: both fields None
NoClick ==
    /\ workflow_result = None
    /\ session_error = None
    /\ dpc = "idle"
    /\ payload = None
    /\ outcome = None
    /\ api_response = None
    /\ reply = None
    /\ clicks = 0

(***************************************************************************)
(* The state of the runs that write their reports under the one reports    *)
(* directory.                                                              *)
(***************************************************************************)
VARIABLES
    now,      \* dt.datetime.now(), in whole seconds
    writers,  \* per run: where it stands, its timestamp, the files written
    disk      \* per report path: the runs that wrote the file

rvars == <<now, writers, disk>>

\* The runs that write reports, and the seconds the clock can show.
MaxRuns == 2
MaxClock == 2

Runs == 1..MaxRuns

\* The report files: the directory named by a timestamp, and the file name.
ReportFiles ==
    {<<t, ReportNames[n]>> : t \in 0..MaxClock, n \in 1..Len(ReportNames)}

\* No run has started and the reports directory is empty.
NoRuns ==
    /\ now = 0
    /\ writers = [r \in Runs |-> [pc |-> "idle", timestamp |-> None, written |-> 0]]
    /\ disk = [f \in ReportFiles |-> {}]

(***************************************************************************)
(* The state of one call of collect_market_snapshots.                      *)
(***************************************************************************)
VARIABLES
    mpc,        \* "idle", "loop", "returned", "raised"
    tickers,    \* the argument symbols
    fetches,    \* per symbol, what fetch_stock_data will do
    position,   \* the index of the symbol the loop is at
    snapshots,  \* the local snapshots
    errors      \* the local errors

mvars == <<mpc, tickers, fetches, position, snapshots, errors>>

\* Before collect_market_snapshots is called.
NoCollect ==
    /\ mpc = "idle"
    /\ tickers = <<>>
    /\ fetches = <<>>
    /\ position = 1
    /\ snapshots = <<>>
    /\ errors = <<>>

\* The state outside the normalizers and outside run.
svars == <<dvars, rvars, mvars>>

vars == <<nvars, wvars, svars>>

\* The longest text drawn from the alphabet.
MaxLen == 5

\* The characters the enumerated texts are made of: a letter, a digit, the
\* two whitespace characters, sentence punctuation, a currency sign and a
\* bullet glyph.
Alphabet == {"a", "1", " ", "\n", ".", "$", "U+2022"}

Texts == UNION {[1..n -> Alphabet] : n \in 0..MaxLen}

\* The most lines of an enumerated document.
MaxLines == 3

\* The lines the enumerated documents are made of: a blank line, a prose
\* line, an ASCII list item, two numbered items and a glyph list item.
LineSamples ==
    { <<>>,
      <<"a">>,
      <<"-", " ", "a">>,
      <<"1", ".", " ", "a">>,
      <<"6", ".", " ", "a">>,
      <<"U+2022", " ", "a">> }

Documents ==
    {Join(d, <<"\n">>) : d \in UNION {[1..n -> LineSamples] : n \in 1..MaxLines}}

\* "revenue grew ,which is strong.Risks remain"
PunctInput ==
    <<"r", "e", "v", "e", "n", "u", "e", " ", "g", "r", "e", "w", " ", ",",
      "w", "h", "i", "c", "h", " ", "i", "s", " ", "s", "t", "r", "o", "n",
      "g", ".", "R", "i", "s", "k", "s", " ", "r", "e", "m", "a", "i", "n">>

\* "revenue grew, which is strong. Risks remain"
PunctExpected ==
    <<"r", "e", "v", "e", "n", "u", "e", " ", "g", "r", "e", "w", ",", " ",
      "w", "h", "i", "c", "h", " ", "i", "s", " ", "s", "t", "r", "o", "n",
      "g", ".", " ", "R", "i", "s", "k", "s", " ", "r", "e", "m", "a", "i",
      "n">>

\* "$ 4 1 6 B"
CurrencyInput ==
    <<"$", " ", "4", " ", "1", " ", "6", " ", "B">>

\* "$416B"
CurrencyExpected ==
    <<"$", "4", "1", "6", "B">>

\* "price is 3 . 5 percent"
DecimalInput ==
    <<"p", "r", "i", "c", "e", " ", "i", "s", " ", "3", " ", ".", " ", "5",
      " ", "p", "e", "r", "c", "e", "n", "t">>

\* "price is 3. 5 percent"
DecimalInputTight ==
    <<"p", "r", "i", "c", "e", " ", "i", "s", " ", "3", ".", " ", "5", " ",
      "p", "e", "r", "c", "e", "n", "t">>

\* "price is 3.5 percent"
DecimalExpected ==
    <<"p", "r", "i", "c", "e", " ", "i", "s", " ", "3", ".", "5", " ", "p",
      "e", "r", "c", "e", "n", "t">>

\* "$416B $416B in revenue"
DuplicateInput ==
    <<"$", "4", "1", "6", "B", " ", "$", "4", "1", "6", "B", " ", "i", "n",
      " ", "r", "e", "v", "e", "n", "u", "e">>

\* "$416B in revenue"
DuplicateExpected ==
    <<"$", "4", "1", "6", "B", " ", "i", "n", " ", "r", "e", "v", "e", "n",
      "u", "e">>

\* "N V D A reported strong growth"
TickerInput ==
    <<"N", " ", "V", " ", "D", " ", "A", " ", "r", "e", "p", "o", "r", "t",
      "e", "d", " ", "s", "t", "r", "o", "n", "g", " ", "g", "r", "o", "w",
      "t", "h">>

\* "NVDA reported strong growth"
TickerExpected ==
    <<"N", "V", "D", "A", " ", "r", "e", "p", "o", "r", "t", "e", "d", " ",
      "s", "t", "r", "o", "n", "g", " ", "g", "r", "o", "w", "t", "h">>

\* "2023 2024"
YearsInput ==
    <<"2", "0", "2", "3", " ", "2", "0", "2", "4">>

\* "10 20"
TensInput ==
    <<"1", "0", " ", "2", "0">>

\* "4 1 6"
DigitsInput ==
    <<"4", " ", "1", " ", "6">>

\* "416"
DigitsExpected ==
    <<"4", "1", "6">>

\* "etc.,"
EtcInput ==
    <<"e", "t", "c", ".", ",">>

\* "50%."
PercentInput ==
    <<"5", "0", "%", ".">>

\* The texts made only of spaces, tabs and newlines (the empty text included).
Blanks == UNION {[1..n -> {" ", "\t", "\n"}] : n \in 0..MaxLen}

Examples ==
    {PunctInput, CurrencyInput, DecimalInput, DecimalInputTight,
     DuplicateInput, TickerInput, YearsInput, TensInput, DigitsInput,
     EtcInput, PercentInput}

\* Lines that open with a list marker or with something close to one: an
\* indentation, a head and what follows the head.
Indents == {<<>>, <<" ">>, <<"\t">>, <<" ", " ">>}

Heads ==
    { <<"U+2022">>, <<"U+25CB">>, <<"-">>, <<"*">>, <<"+">>, <<"#">>,
      <<"1", ".">>, <<"1", "2", ".">>, <<"1">>, <<".">>, <<"a">> }

Followers ==
    { <<>>, <<" ">>, <<"\t">>, <<"x">>, <<"5">>, <<" ", "x">>, <<"\t", "x">>,
      <<" ", " ", "x">> }

MarkerLines ==
    {indent \o head \o follower :
        indent \in Indents, head \in Heads, follower \in Followers}

\* The longest text made of dollar signs, backslashes and a letter.
MaxEscapeLen == 4

\* Texts in which a dollar sign may already be escaped.
Escapes == UNION {[1..n -> {"$", "\\", "a"}] : n \in 1..MaxEscapeLen}

Inputs ==
    Texts \cup Documents \cup Blanks \cup Examples \cup MarkerLines \cup Escapes

Call(f, t) ==
    CASE f = "format" -> _format_text_block(t)
      [] f = "normalize" -> _normalize_text_block(t)
      [] f = "clean" -> _clean_line(t)

Init ==
    /\ text \in Inputs
    /\ fn = "none"
    /\ pc = "ready"
    /\ out = <<>>
    /\ again = <<>>
    /\ NoCall
    /\ NoClick
    /\ NoRuns
    /\ NoCollect

FormatTextBlock ==
    /\ pc = "ready"
    /\ fn' = "format"
    /\ out' = _format_text_block(text)
    /\ pc' = "done"
    /\ UNCHANGED <<text, again>>
    /\ UNCHANGED <<wvars, svars>>

NormalizeTextBlock ==
    /\ pc = "ready"
    /\ fn' = "normalize"
    /\ out' = _normalize_text_block(text)
    /\ pc' = "done"
    /\ UNCHANGED <<text, again>>
    /\ UNCHANGED <<wvars, svars>>

\* _clean_line receives one line of a block: a text without a line break.
CleanLine ==
    /\ pc = "ready"
    /\ \A n \in 1..Len(text) : text[n] \notin {"\n", "\r"}
    /\ fn' = "clean"
    /\ out' = _clean_line(text)
    /\ pc' = "done"
    /\ UNCHANGED <<text, again>>
    /\ UNCHANGED <<wvars, svars>>

Reapply ==
    /\ pc = "done"
    /\ again' = Call(fn, out)
    /\ pc' = "again"
    /\ UNCHANGED <<text, fn, out>>
    /\ UNCHANGED <<wvars, svars>>

\* A text without a line break: what the per-line helpers receive.
IsLine(t) == \A n \in 1..Len(t) : t[n] \notin {"\n", "\r"}

\* The helpers of _format_text_block, each called on its own; pc "returned"
\* marks that the helper has returned out.
NormalizeBulletLine ==
    /\ pc = "ready"
    /\ IsLine(text)
    /\ fn' = "bullet"
    /\ out' = _normalize_bullet_line(text)
    /\ pc' = "returned"
    /\ UNCHANGED <<text, again>>
    /\ UNCHANGED <<wvars, svars>>

IsListItem ==
    /\ pc = "ready"
    /\ IsLine(text)
    /\ fn' = "list"
    /\ out' = _is_list_item(text)
    /\ pc' = "returned"
    /\ UNCHANGED <<text, again>>
    /\ UNCHANGED <<wvars, svars>>

SeparateInlineBullets ==
    /\ pc = "ready"
    /\ fn' = "separate"
    /\ out' = _separate_inline_bullets(text)
    /\ pc' = "returned"
    /\ UNCHANGED <<text, again>>
    /\ UNCHANGED <<wvars, svars>>

Next ==
    \/ FormatTextBlock
    \/ NormalizeTextBlock
    \/ CleanLine
    \/ Reapply
    \/ NormalizeBulletLine
    \/ IsListItem
    \/ SeparateInlineBullets

Spec == Init /\ [][Next]_vars

(***************************************************************************)
(* The workflow: a caller constructs a WorkflowRequest and calls run with  *)
(* it, or calls run with a list of symbols; run works through its three    *)
(* stages, each one a prompt given to an agent that returns or raises,     *)
(* writes the reports if asked to, and returns.                            *)
(***************************************************************************)
\* The most entries of a list of symbols.
MaxSymbols == 2

\* The entries the lists of symbols are made of: "", " ", " a", "B ".
SymbolSamples == {<<>>, <<" ">>, <<" ", "a">>, <<"B", " ">>}

SymbolLists == UNION {[1..n -> SymbolSamples] : n \in 0..MaxSymbols}

OptionalBool == {None, Some(TRUE), Some(FALSE)}

\* The texts an agent puts in the fields of one response: "ok", which the
\* normalizer leaves as it is, and "go  up", which it changes; each response
\* holds both, one way round or the other.
AgentTexts ==
    {<< <<"o", "k">>, <<"g", "o", " ", " ", "u", "p">> >>,
     << <<"g", "o", " ", " ", "u", "p">>, <<"o", "k">> >>}

\* The most companies in a stock analysis.
MaxCompanies == 1

StockResponses ==
    {[overview |-> t[1],
      company_symbols |-> t[1],
      companies |->
          [k \in 1..n |->
              [symbol |-> <<"A">>, company_name |-> t[2],
               market_research |-> t[2], financial_analysis |-> t[1],
               risk_assessment |-> t[2]]],
      key_recommendations |-> t[2]] :
        t \in AgentTexts, n \in 0..MaxCompanies}

RankingResponses ==
    {[ranked_companies |-> t[1], investment_rationale |-> t[2],
      risk_evaluation |-> t[1], growth_potential |-> t[2]] :
        t \in AgentTexts}

PortfolioResponses ==
    {[allocation_strategy |-> t[1], investment_thesis |-> t[2],
      risk_management |-> t[1], final_recommendations |-> t[2]] :
        t \in AgentTexts}

\* The request object of a constructor call that did not raise.
RequestOf(r) == [symbols |-> r.symbols, write_reports |-> r.write_reports]

WorkflowInit ==
    /\ text = <<>>
    /\ fn = "none"
    /\ pc = "ready"
    /\ out = <<>>
    /\ again = <<>>
    /\ NoCall
    /\ NoClick
    /\ NoRuns
    /\ NoCollect

\* WorkflowRequest(symbols=..., write_reports=...) by the caller
ConstructRequest ==
    /\ wpc = "start"
    /\ \E symbols \in SymbolLists, flag \in OptionalBool :
          /\ call' = [call EXCEPT !.symbols = symbols, !.write_reports = flag]
          /\ IF WorkflowRequest(symbols, flag).raised # None
             THEN /\ error' = WorkflowRequest(symbols, flag).raised
                  /\ wpc' = "rejected"
                  /\ UNCHANGED request
             ELSE /\ request' = Some(RequestOf(WorkflowRequest(symbols, flag)))
                  /\ wpc' = "constructed"
                  /\ UNCHANGED error
    /\ UNCHANGED <<raw, stock_analysis, ranking, portfolio, prompts, files,
                   result>>
    /\ UNCHANGED <<nvars, svars>>

\* run(request, write_reports=...): the head of run, up to the first stage
RunWithRequest ==
    /\ wpc = "constructed"
    /\ \E write_reports \in OptionalBool :
          /\ call' = [call EXCEPT !.override = write_reports]
          /\ request' = Some(OverrideWriteReports(request[1], write_reports))
    /\ wpc' = "stock"
    /\ UNCHANGED <<error, raw, stock_analysis, ranking, portfolio, prompts,
                   files, result>>
    /\ UNCHANGED <<nvars, svars>>

\* run(symbols, write_reports=...) with an iterable of symbols
RunWithSymbols ==
    /\ wpc = "start"
    /\ \E symbols \in SymbolLists, write_reports \in OptionalBool :
          /\ call' = [call EXCEPT !.symbols = symbols,
                                  !.override = write_reports]
          /\ IF WorkflowRequest(symbols, None).raised # None
             THEN /\ error' = WorkflowRequest(symbols, None).raised
                  /\ wpc' = "raised"
                  /\ UNCHANGED request
             ELSE /\ request' =
                        Some(OverrideWriteReports(
                                RequestOf(WorkflowRequest(symbols, None)),
                                write_reports))
                  /\ wpc' = "stock"
                  /\ UNCHANGED error
    /\ UNCHANGED <<raw, stock_analysis, ranking, portfolio, prompts, files,
                   result>>
    /\ UNCHANGED <<nvars, svars>>

\* _run_stock_analysis: the prompt is built and given to the stock analyst
SubmitStockAnalysis ==
    /\ wpc = "stock"
    /\ prompts' = Append(prompts, StockPrompt(request[1].symbols))
    /\ wpc' = "stock_wait"
    /\ UNCHANGED <<call, request, error, raw, stock_analysis, ranking,
                   portfolio, files, result>>
    /\ UNCHANGED <<nvars, svars>>

\* the stock analyst returns and _clean_stock_analysis cleans its result
StockAnalysisReturns ==
    /\ wpc = "stock_wait"
    /\ \E response \in StockResponses :
          /\ raw' = [raw EXCEPT !.stock = Some(response)]
          /\ stock_analysis' = Some(_clean_stock_analysis(response))
    /\ wpc' = "ranking"
    /\ UNCHANGED <<call, request, error, ranking, portfolio, prompts, files,
                   result>>
    /\ UNCHANGED <<nvars, svars>>

\* the stock analyst raises: the exception leaves run
StockAnalysisRaises ==
    /\ wpc = "stock_wait"
    /\ error' = Some("Stock Analyst")
    /\ wpc' = "raised"
    /\ UNCHANGED <<call, request, raw, stock_analysis, ranking, portfolio,
                   prompts, files, result>>
    /\ UNCHANGED <<nvars, svars>>

\* _run_investment_ranking: the prompt is built from stock_analysis
SubmitInvestmentRanking ==
    /\ wpc = "ranking"
    /\ prompts' = Append(prompts, RankingPrompt(stock_analysis[1]))
    /\ wpc' = "ranking_wait"
    /\ UNCHANGED <<call, request, error, raw, stock_analysis, ranking,
                   portfolio, files, result>>
    /\ UNCHANGED <<nvars, svars>>

InvestmentRankingReturns ==
    /\ wpc = "ranking_wait"
    /\ \E response \in RankingResponses :
          /\ raw' = [raw EXCEPT !.ranking = Some(response)]
          /\ ranking' = Some(_clean_investment_ranking(response))
    /\ wpc' = "portfolio"
    /\ UNCHANGED <<call, request, error, stock_analysis, portfolio, prompts,
                   files, result>>
    /\ UNCHANGED <<nvars, svars>>

\* The exception of the research analyst swallowed: run goes on to the
\* portfolio stage with an empty ranking.
InvestmentRankingRaisesSwallowed ==
    /\ wpc = "ranking_wait"
    /\ error' = Some("Research Analyst")
    /\ ranking' = Some([ranked_companies |-> <<>>, investment_rationale |-> <<>>,
                        risk_evaluation |-> <<>>, growth_potential |-> <<>>])
    /\ wpc' = "portfolio"
    /\ UNCHANGED <<call, request, raw, stock_analysis, portfolio, prompts,
                   files, result>>
    /\ UNCHANGED <<nvars, svars>>

InvestmentRankingRaises ==
    /\ wpc = "ranking_wait"
    /\ error' = Some("Research Analyst")
    /\ wpc' = "raised"
    /\ UNCHANGED <<call, request, raw, stock_analysis, ranking, portfolio,
                   prompts, files, result>>
    /\ UNCHANGED <<nvars, svars>>

\* _run_portfolio_allocation: the prompt is built from ranking
SubmitPortfolioAllocation ==
    /\ wpc = "portfolio"
    /\ prompts' = Append(prompts, PortfolioPrompt(ranking[1]))
    /\ wpc' = "portfolio_wait"
    /\ UNCHANGED <<call, request, error, raw, stock_analysis, ranking,
                   portfolio, files, result>>
    /\ UNCHANGED <<nvars, svars>>

PortfolioAllocationReturns ==
    /\ wpc = "portfolio_wait"
    /\ \E response \in PortfolioResponses :
          /\ raw' = [raw EXCEPT !.portfolio = Some(response)]
          /\ portfolio' = Some(_clean_portfolio_allocation(response))
    /\ wpc' = "reports"
    /\ UNCHANGED <<call, request, error, stock_analysis, ranking, prompts,
                   files, result>>
    /\ UNCHANGED <<nvars, svars>>

PortfolioAllocationRaises ==
    /\ wpc = "portfolio_wait"
    /\ error' = Some("Investment Lead")
    /\ wpc' = "raised"
    /\ UNCHANGED <<call, request, raw, stock_analysis, ranking, portfolio,
                   prompts, files, result>>
    /\ UNCHANGED <<nvars, svars>>

\* The text of the n-th report of _write_reports.
ReportText(n) ==
    CASE n = 1 -> _render_stock_analysis_report(stock_analysis[1])
      [] n = 2 -> _render_investment_ranking_report(ranking[1])
      [] n = 3 -> _render_portfolio_report(portfolio[1])

\* _write_reports: the next write_text of the three
WriteReport ==
    /\ wpc = "reports"
    /\ request[1].write_reports
    /\ Len(files) < Len(ReportNames)
    /\ files' = Append(files, [path |-> ReportNames[Len(files) + 1],
                               text |-> ReportText(Len(files) + 1)])
    /\ UNCHANGED <<wpc, call, request, error, raw, stock_analysis, ranking,
                   portfolio, prompts, result>>
    /\ UNCHANGED <<nvars, svars>>

\* mkdir or write_text raises: the exception leaves run
WriteReportRaises ==
    /\ wpc = "reports"
    /\ request[1].write_reports
    /\ Len(files) < Len(ReportNames)
    /\ error' = Some("OSError")
    /\ wpc' = "raised"
    /\ UNCHANGED <<call, request, raw, stock_analysis, ranking, portfolio,
                   prompts, files, result>>
    /\ UNCHANGED <<nvars, svars>>

\* [str(path) for path in (stock_path, ranking_path, portfolio_path)]
ReportPaths(written) == [n \in 1..Len(written) |-> written[n].path]

\* WorkflowResult(...)
WorkflowResult(report_paths) ==
    [symbols |-> request[1].symbols,
     stock_analysis |-> stock_analysis[1],
     investment_ranking |-> ranking[1],
     portfolio_allocation |-> portfolio[1],
     summary |-> _summarize_workflow(request[1].symbols, portfolio[1]),
     report_paths |-> report_paths]

\* the tail of run: report_paths, the summary and the result
Return ==
    /\ wpc = "reports"
    /\ IF request[1].write_reports
       THEN /\ Len(files) = Len(ReportNames)
            /\ result' = Some(WorkflowResult(Some(ReportPaths(files))))
       ELSE result' = Some(WorkflowResult(None))
    /\ wpc' = "returned"
    /\ UNCHANGED <<call, request, error, raw, stock_analysis, ranking,
                   portfolio, prompts, files>>
    /\ UNCHANGED <<nvars, svars>>

WorkflowNext ==
    \/ ConstructRequest
    \/ RunWithRequest
    \/ RunWithSymbols
    \/ SubmitStockAnalysis
    \/ StockAnalysisReturns
    \/ StockAnalysisRaises
    \/ SubmitInvestmentRanking
    \/ InvestmentRankingReturns
    \/ InvestmentRankingRaises
    \/ SubmitPortfolioAllocation
    \/ PortfolioAllocationReturns
    \/ PortfolioAllocationRaises
    \/ WriteReport
    \/ WriteReportRaises
    \/ Return

WorkflowSpec == WorkflowInit /\ [][WorkflowNext]_vars

(***************************************************************************)
(* The dashboard: each click on "Run Analysis" runs the handler, which     *)
(* posts the symbols to /analyze; analyze awaits workflow.run and answers; *)
(* the handler stores what came back in the session.                       *)
(***************************************************************************)
\* The most clicks of one session.
MaxClicks == 3

\* What the user types in the ticker field: "", " ", ",", "a", " a, ",
\* "a, B".
SymbolInputs ==
    { <<>>, <<" ">>, <<",">>, <<"a">>, <<" ", "a", ",", " ">>,
      <<"a", ",", " ", "B">> }

\* [s.strip().upper() for s in symbols_input.split(",") if s.strip()]
ParseSymbols(symbols_input) == StripUpperNonBlank(SplitOn(symbols_input, ","))

\* The messages of the ValueErrors that leave workflow.run.
ValueErrorMessages == {"Invalid agent response", "No data for symbol"}

\* The exceptions other than ValueError that leave workflow.run, and the
\* ones that requests.post raises when no response arrives.
OtherExceptions == {"RuntimeError", "OSError"}
RequestExceptions == {"ConnectionError", "ReadTimeout"}

\* What workflow.run returns for a body: the WorkflowResult, of which the
\* symbols and the report paths are kept.
RunResult(body) ==
    [symbols |-> body.symbols,
     report_paths |-> IF body.write_reports THEN Some(ReportNames) ELSE None]

\* An HTTP response with a JSON body: a result, or a detail.
JsonResponse(status, value, detail) ==
    [status |-> status, json |-> TRUE, result |-> value, detail |-> detail]

\* An HTTP error response whose body is not JSON: the plain-text or HTML
\* page of a server or gateway.
ErrorPage == [status |-> 502, json |-> FALSE, result |-> None, detail |-> None]

\* No response: requests.post raised exc.
NoResponse(exc) == [status |-> 0, json |-> FALSE, result |-> None, detail |-> Some(exc)]

DashboardInit ==
    /\ text = <<>>
    /\ fn = "none"
    /\ pc = "ready"
    /\ out = <<>>
    /\ again = <<>>
    /\ NoCall
    /\ NoClick
    /\ NoRuns
    /\ NoCollect

\* if run_button: the symbols are parsed; without a symbol the handler warns
\* and ends, else it calls _call_api, which posts the body.
ClickRunAnalysis ==
    /\ dpc = "idle"
    /\ clicks < MaxClicks
    /\ clicks' = clicks + 1
    /\ \E symbols_input \in SymbolInputs, persist \in BOOLEAN :
          IF ParseSymbols(symbols_input) = <<>>
          THEN UNCHANGED <<dpc, payload>>
          ELSE /\ payload' = Some([symbols |-> ParseSymbols(symbols_input),
                                   write_reports |-> persist])
               /\ dpc' = "posted"
    /\ UNCHANGED <<workflow_result, session_error, outcome, api_response, reply>>
    /\ UNCHANGED <<nvars, wvars, rvars, mvars>>

\* analyze: the body is validated as a WorkflowRequest and workflow.run is
\* handed to the thread pool.
AnalyzeCallsRun ==
    /\ dpc = "posted"
    /\ WorkflowRequest(payload[1].symbols, Some(payload[1].write_reports)).raised = None
    /\ dpc' = "running"
    /\ UNCHANGED <<workflow_result, session_error, payload, outcome, api_response,
                   reply, clicks>>
    /\ UNCHANGED <<nvars, wvars, rvars, mvars>>

\* workflow.run returns: analyze returns the WorkflowResult
RunReturns ==
    /\ dpc = "running"
    /\ outcome' = Some([kind |-> "returned",
                        result |-> Some(RunResult(payload[1])),
                        message |-> ""])
    /\ api_response' = Some(JsonResponse(200, Some(RunResult(payload[1])), None))
    /\ dpc' = "responded"
    /\ UNCHANGED <<workflow_result, session_error, payload, reply, clicks>>
    /\ UNCHANGED <<nvars, wvars, rvars, mvars>>

\* "except Exception" alone: a ValueError answered as any other exception
RunRaisesValueErrorAsFailure ==
    /\ dpc = "running"
    /\ \E message \in ValueErrorMessages :
          outcome' = Some([kind |-> "ValueError", result |-> None,
                           message |-> message])
    /\ api_response' =
           Some(JsonResponse(500, None, Some("Workflow execution failed")))
    /\ dpc' = "responded"
    /\ UNCHANGED <<workflow_result, session_error, payload, reply, clicks>>
    /\ UNCHANGED <<nvars, wvars, rvars, mvars>>

\* workflow.run raises a ValueError: HTTPException(400, detail=str(exc))
RunRaisesValueError ==
    /\ dpc = "running"
    /\ \E message \in ValueErrorMessages :
          /\ outcome' = Some([kind |-> "ValueError", result |-> None,
                              message |-> message])
          /\ api_response' = Some(JsonResponse(400, None, Some(message)))
    /\ dpc' = "responded"
    /\ UNCHANGED <<workflow_result, session_error, payload, reply, clicks>>
    /\ UNCHANGED <<nvars, wvars, rvars, mvars>>

\* workflow.run raises another exception: HTTPException(500, the fixed detail)
RunRaisesException ==
    /\ dpc = "running"
    /\ \E exc \in OtherExceptions :
          outcome' = Some([kind |-> "Exception", result |-> None,
                           message |-> exc])
    /\ api_response' =
           Some(JsonResponse(500, None, Some("Workflow execution failed")))
    /\ dpc' = "responded"
    /\ UNCHANGED <<workflow_result, session_error, payload, reply, clicks>>
    /\ UNCHANGED <<nvars, wvars, rvars, mvars>>

\* requests.post returns the response of analyze.
ResponseArrives ==
    /\ dpc = "responded"
    /\ reply' = api_response
    /\ dpc' = "answered"
    /\ UNCHANGED <<workflow_result, session_error, payload, outcome, api_response,
                   clicks>>
    /\ UNCHANGED <<nvars, wvars, rvars, mvars>>

\* requests.post returns an HTTP error whose body is not JSON, from the
\* server or from a gateway between the dashboard and UPSONIC_API_URL.
ErrorPageArrives ==
    /\ dpc \in {"posted", "responded"}
    /\ reply' = Some(ErrorPage)
    /\ dpc' = "answered"
    /\ UNCHANGED <<workflow_result, session_error, payload, outcome, api_response,
                   clicks>>
    /\ UNCHANGED <<nvars, wvars, rvars, mvars>>

\* requests.post raises: the connection fails or the timeout of 120 seconds
\* passes.
RequestFails ==
    /\ dpc \in {"posted", "running", "responded"}
    /\ \E exc \in RequestExceptions : reply' = Some(NoResponse(exc))
    /\ dpc' = "answered"
    /\ UNCHANGED <<workflow_result, session_error, payload, outcome, api_response,
                   clicks>>
    /\ UNCHANGED <<nvars, wvars, rvars, mvars>>

\* The rest of the handler: the try of lines 145-153. A 200 is stored as the
\* result; raise_for_status raises HTTPError for an error status, and
\* exc.response.json() then gives the detail, or itself raises when the body
\* is not JSON, which ends the script run with the session as it was; any
\* other exception of _call_api is stored as its text.
HandleReply ==
    /\ dpc = "answered"
    /\ CASE reply[1].status = 200 ->
                /\ workflow_result' = reply[1].result
                /\ session_error' = None
         [] reply[1].status = 0 ->
                /\ session_error' = reply[1].detail
                /\ workflow_result' = None
         [] reply[1].status >= 400 /\ reply[1].json ->
                /\ session_error' = reply[1].detail
                /\ workflow_result' = None
         [] reply[1].status >= 400 /\ ~reply[1].json ->
                UNCHANGED <<workflow_result, session_error>>
    /\ dpc' = "idle"
    /\ payload' = None
    /\ outcome' = None
    /\ api_response' = None
    /\ reply' = None
    /\ UNCHANGED clicks
    /\ UNCHANGED <<nvars, wvars, rvars, mvars>>

DashboardNext ==
    \/ ClickRunAnalysis
    \/ AnalyzeCallsRun
    \/ RunReturns
    \/ RunRaisesValueError
    \/ RunRaisesException
    \/ ResponseArrives
    \/ ErrorPageArrives
    \/ RequestFails
    \/ HandleReply

DashboardSpec == DashboardInit /\ [][DashboardNext]_vars

(***************************************************************************)
(* Report writing: the API hands every run to its thread pool, all on the  *)
(* one workflow object and its one reports directory; the runs' steps      *)
(* interleave and the clock moves on between them, or does not.            *)
(***************************************************************************)
ReportsInit ==
    /\ text = <<>>
    /\ fn = "none"
    /\ pc = "ready"
    /\ out = <<>>
    /\ again = <<>>
    /\ NoCall
    /\ NoClick
    /\ NoRuns
    /\ NoCollect

\* A second passes.
Tick ==
    /\ now < MaxClock
    /\ now' = now + 1
    /\ UNCHANGED <<writers, disk>>
    /\ UNCHANGED <<nvars, wvars, dvars, mvars>>

\* run is called with report writing enabled and works through its stages.
RunStarts ==
    /\ \E r \in Runs :
          /\ writers[r].pc = "idle"
          /\ writers' = [writers EXCEPT ![r].pc = "stages"]
    /\ UNCHANGED <<now, disk>>
    /\ UNCHANGED <<nvars, wvars, dvars, mvars>>

\* _write_reports, lines 459-461: the timestamp is the clock to the second,
\* and the directory of that name is made, or is there already
\* (exist_ok=True).
WriteReportsStarts ==
    /\ \E r \in Runs :
          /\ writers[r].pc = "stages"
          /\ writers' = [writers EXCEPT ![r] =
                            [pc |-> "writing", timestamp |-> Some(now),
                             written |-> 0]]
    /\ UNCHANGED <<now, disk>>
    /\ UNCHANGED <<nvars, wvars, dvars, mvars>>

\* The next write_text of lines 467-469, which creates or overwrites the file.
WriteText ==
    /\ \E r \in Runs :
          /\ writers[r].pc = "writing"
          /\ writers[r].written < Len(ReportNames)
          /\ disk' = [disk EXCEPT
                         ![<<writers[r].timestamp[1],
                             ReportNames[writers[r].written + 1]>>] = @ \cup {r}]
          /\ writers' = [writers EXCEPT ![r].written = @ + 1]
    /\ UNCHANGED now
    /\ UNCHANGED <<nvars, wvars, dvars, mvars>>

\* _write_reports returns the three paths.
WriteReportsReturns ==
    /\ \E r \in Runs :
          /\ writers[r].pc = "writing"
          /\ writers[r].written = Len(ReportNames)
          /\ writers' = [writers EXCEPT ![r].pc = "done"]
    /\ UNCHANGED <<now, disk>>
    /\ UNCHANGED <<nvars, wvars, dvars, mvars>>

ReportsNext ==
    \/ Tick
    \/ RunStarts
    \/ WriteReportsStarts
    \/ WriteText
    \/ WriteReportsReturns

ReportsSpec == ReportsInit /\ [][ReportsNext]_vars

(***************************************************************************)
(* collect_market_snapshots: the loop over the symbols, each fetch         *)
(* returning a snapshot or raising.                                        *)
(***************************************************************************)
\* The most symbols of one call.
MaxTickers == 2

\* The symbols of the calls: "a", "B", "cd".
TickerSamples == {<<"a">>, <<"B">>, <<"c", "d">>}

TickerLists == UNION {[1..n -> TickerSamples] : n \in 0..MaxTickers}

\* What fetch_stock_data does for a symbol: it returns the snapshot, finds
\* an empty history, or fails in the market-data library.
FetchBehaviours == {"ok", "empty", "fails"}

\* The snapshot of fetch_stock_data, of which the ticker is kept.
Snapshot(symbol) == [ticker |-> upper(symbol)]

\* "No price history found for "
NoHistory ==
    <<"N", "o", " ", "p", "r", "i", "c", "e", " ", "h", "i", "s", "t", "o",
      "r", "y", " ", "f", "o", "u", "n", "d", " ", "f", "o", "r", " ">>

\* str(exc) of the exception that leaves fetch_stock_data.
FetchMessage(symbol, behaviour) ==
    IF behaviour = "empty" THEN NoHistory \o upper(symbol)
    ELSE <<"t", "i", "m", "e", "d", " ", "o", "u", "t">>

\* f"{symbol.upper()}: {exc}"
ErrorEntry(symbol, behaviour) ==
    upper(symbol) \o <<":", " ">> \o FetchMessage(symbol, behaviour)

MarketInit ==
    /\ text = <<>>
    /\ fn = "none"
    /\ pc = "ready"
    /\ out = <<>>
    /\ again = <<>>
    /\ NoCall
    /\ NoClick
    /\ NoRuns
    /\ NoCollect

\* The call: the two lists start empty.
CollectMarketSnapshots ==
    /\ mpc = "idle"
    /\ \E list \in TickerLists :
          /\ tickers' = list
          /\ fetches' \in [1..Len(list) -> FetchBehaviours]
    /\ position' = 1
    /\ snapshots' = <<>>
    /\ errors' = <<>>
    /\ mpc' = "loop"
    /\ UNCHANGED <<nvars, wvars, dvars, rvars>>

\* snapshots.append(fetch_stock_data(symbol))
FetchReturns ==
    /\ mpc = "loop"
    /\ position <= Len(tickers)
    /\ fetches[position] = "ok"
    /\ snapshots' = Append(snapshots, Snapshot(tickers[position]))
    /\ position' = position + 1
    /\ UNCHANGED <<mpc, tickers, fetches, errors>>
    /\ UNCHANGED <<nvars, wvars, dvars, rvars>>

\* Without the try: the exception of fetch_stock_data leaves the function.
FetchRaisesUncaught ==
    /\ mpc = "loop"
    /\ position <= Len(tickers)
    /\ fetches[position] # "ok"
    /\ mpc' = "raised"
    /\ UNCHANGED <<tickers, fetches, position, snapshots, errors>>
    /\ UNCHANGED <<nvars, wvars, dvars, rvars>>

\* except Exception as exc: errors.append(f"{symbol.upper()}: {exc}")
FetchRaises ==
    /\ mpc = "loop"
    /\ position <= Len(tickers)
    /\ fetches[position] # "ok"
    /\ errors' = Append(errors, ErrorEntry(tickers[position], fetches[position]))
    /\ position' = position + 1
    /\ UNCHANGED <<mpc, tickers, fetches, snapshots>>
    /\ UNCHANGED <<nvars, wvars, dvars, rvars>>

\* return snapshots, errors
CollectReturns ==
    /\ mpc = "loop"
    /\ position > Len(tickers)
    /\ mpc' = "returned"
    /\ UNCHANGED <<tickers, fetches, position, snapshots, errors>>
    /\ UNCHANGED <<nvars, wvars, dvars, rvars>>

MarketNext ==
    \/ CollectMarketSnapshots
    \/ FetchReturns
    \/ FetchRaises
    \/ CollectReturns

MarketSpec == MarketInit /\ [][MarketNext]_vars

(***************************************************************************)
(* Vocabulary of the properties.                                           *)
(***************************************************************************)
\* The function f has returned for text.
Done(f) == fn = f /\ pc \in {"done", "again"}

IsAlnum(c) == c \in Letters \cup Digits

\* The letters and digits of a text, in order.
Alnum(s) == SelectSeq(s, IsAlnum)

RECURSIVE Canon(_)
\* The visible characters of a text, in order: whitespace and backslashes
\* dropped, every bullet glyph read as a hyphen.
Canon(s) ==
    IF s = <<>> THEN <<>>
    ELSE (IF isspace(s[1]) \/ s[1] = "\\" THEN <<>>
          ELSE IF s[1] \in BULLET_CHARS THEN <<"-">>
          ELSE <<s[1]>>) \o Canon(Tail(s))

RECURSIVE Tokens(_)
\* The whitespace-separated tokens of a text.
Tokens(s) ==
    LET i == SkipSpace(s, 1)
        j == SkipClass(s, i, {At(s, k) : k \in 1..Len(s)} \ SpaceChars)
    IN  IF i > Len(s) THEN <<>>
        ELSE <<SubSeq(s, i, j - 1)>> \o Tokens(SubSeq(s, j, Len(s)))

\* Some token is immediately followed by the same token.
HasRepeatedToken(s) ==
    LET w == Tokens(s)
    IN  \E n \in 1..(Len(w) - 1) : w[n] = w[n + 1]

RECURSIVE GroupBlocks(_, _)
\* The blocks of a sequence of lines: the maximal runs of non-blank lines.
GroupBlocks(lines, cur) ==
    IF lines = <<>> THEN (IF cur = <<>> THEN <<>> ELSE <<cur>>)
    ELSE IF NonBlank(lines[1]) THEN GroupBlocks(Tail(lines), Append(cur, lines[1]))
    ELSE (IF cur = <<>> THEN <<>> ELSE <<cur>>) \o GroupBlocks(Tail(lines), <<>>)

\* The blocks of a text, each the sequence of its lines.
ParagraphBlocks(s) == GroupBlocks(SplitOn(s, "\n"), <<>>)

\* The lines of a text.
Lines(s) == SplitOn(s, "\n")

(***************************************************************************)
(* C1 .. C10                                                               *)
(***************************************************************************)
\* C1: _normalize_text_block never deletes a letter or digit: for a text
\* without an immediately repeated token, the letters and digits of the
\* result are those of the text, in order.
C1_NormalizeKeepsLettersAndDigits ==
    (Done("normalize") /\ ~HasRepeatedToken(text)) => Alnum(out) = Alnum(text)

\* C2: _format_text_block never deletes a letter or digit (fix_text being
\* the identity): the visible characters of the result are those of the
\* text, in order, but for a glyph rewritten as a hyphen and the backslash
\* put before a dollar sign; so are its letters and digits.
C2_FormatKeepsLettersAndDigits ==
    Done("format") => /\ Alnum(out) = Alnum(text)
                      /\ Canon(out) = Canon(text)

\* C2, its case: a text with a glyph, a digit and a letter, from which the
\* call removed whitespace.
C2_Witness ==
    /\ Done("format")
    /\ text = <<"U+2022", " ", "1", " ", "a">>
    /\ out = <<"-", " ", "1", "a">>

\* C3: _format_text_block is idempotent: a second call on the result of a
\* first call returns that result.
C3_FormatIdempotent ==
    (fn = "format" /\ pc = "again") => again = out

\* C4: _normalize_text_block is idempotent: a second call on the result of
\* a first call returns that result.
C4_NormalizeIdempotent ==
    (fn = "normalize" /\ pc = "again") => again = out

\* The rendering of one block by the dashboard: its lines cleaned and joined,
\* and the dollar signs escaped.
RenderedBlock(b) ==
    ReSub("dollar", RenderBlock(BulletLines(b)))

\* C5: _format_text_block, given k >= 2 blocks separated by blank lines,
\* returns the k rendered blocks in their order with one blank line between
\* consecutive blocks.
C5_FormatJoinsBlocksByBlankLine ==
    LET blocks == ParagraphBlocks(text)
    IN  (/\ Done("format")
         /\ Len(blocks) >= 2
         /\ _separate_inline_bullets(text) = text)
        => SplitBlocks(out) = [n \in 1..Len(blocks) |-> RenderedBlock(blocks[n])]

\* A prose line of the workflow normalizer's input: no list marker ("- ",
\* "* ", "+ ", digits then ". ") starts it.
IsFlowListLine(line) ==
    LET l == lstrip(line)
        d == SkipClass(l, 1, Digits)
    IN  \/ At(l, 1) \in {"-", "*", "+"} /\ At(l, 2) = " "
        \/ d > 1 /\ At(l, d) = "." /\ At(l, d + 1) = " "

\* C6: _normalize_text_block keeps paragraphs: prose paragraphs separated by
\* blank lines come out as as many paragraphs, in the same order, separated
\* by a blank line.
C6_NormalizeKeepsParagraphs ==
    LET blocks == ParagraphBlocks(text)
        paragraphs == SplitBlocks(out)
    IN  (/\ Done("normalize")
         /\ Len(blocks) >= 2
         /\ \A n \in 1..Len(blocks) :
                \A m \in 1..Len(blocks[n]) : ~IsFlowListLine(blocks[n][m]))
        => /\ Len(paragraphs) = Len(blocks)
           /\ \A n \in 1..Len(blocks) :
                  Canon(paragraphs[n]) = Canon(Join(blocks[n], <<" ">>))

\* A list line, as the normalizer f is to recognize it.
IsListLine(f, line) ==
    IF f = "format" THEN _is_list_item(line) ELSE IsFlowListLine(line)

\* Every line of every block of the text that holds a list line of f is a
\* line of its own in the result, up to whitespace.
ListBlocksKeepTheirLines(f) ==
    LET blocks == ParagraphBlocks(text)
        outlines == Lines(out)
    IN  \A n \in 1..Len(blocks) :
            (\E m \in 1..Len(blocks[n]) : IsListLine(f, blocks[n][m]))
            => \A m \in 1..Len(blocks[n]) :
                   \E k \in 1..Len(outlines) :
                       Canon(outlines[k]) = Canon(blocks[n][m])

\* C7: _format_text_block renders a block that holds a list line one output
\* line per line of the block, none joined to another line of the block or
\* of a neighbouring block.
C7_FormatKeepsListLines ==
    (Done("format") /\ _separate_inline_bullets(text) = text)
    => ListBlocksKeepTheirLines("format")

\* C8: _normalize_text_block renders a block that holds a list line (a
\* numbered marker of any digits included) as a list: every line of the
\* block stays on its own output line, so the result has as many lines as
\* the block.
C8_NormalizeKeepsListLines ==
    LET blocks == ParagraphBlocks(text)
    IN  (/\ Done("normalize")
         /\ Len(blocks) = 1
         /\ \E m \in 1..Len(blocks[1]) : IsFlowListLine(blocks[1][m]))
        => /\ ListBlocksKeepTheirLines("normalize")
           /\ Len(Lines(out)) = Len(blocks[1])

\* C9: both normalizers turn "revenue grew ,which is strong.Risks remain"
\* into "revenue grew, which is strong. Risks remain".
C9_PunctuationExample ==
    (text = PunctInput /\ (Done("format") \/ Done("normalize")))
    => out = PunctExpected

\* A currency sign, then single digits and a unit letter, each after
\* optional whitespace, on one line.
IsSplitAmount(s) ==
    /\ Len(s) >= 3
    /\ s[1] \in DashCurrency
    /\ s[Len(s)] \in Letters
    /\ \A n \in 2..(Len(s) - 1) : s[n] \in Digits \cup {" ", "\t"}
    /\ \E n \in 2..(Len(s) - 1) : s[n] \in Digits

NotSpace(c) == ~isspace(c)

\* C10: _clean_line turns "$ 4 1 6 B" into "$416B": a currency sign, digits
\* and a unit letter separated only by whitespace become one token without
\* whitespace; _format_text_block returns that token with the dollar sign
\* escaped.
C10_CurrencyAmountCollapses ==
    /\ (Done("clean") /\ IsSplitAmount(text)) => out = SelectSeq(text, NotSpace)
    /\ (Done("format") /\ IsSplitAmount(text))
       => out = ReSub("dollar", SelectSeq(text, NotSpace))
    /\ (Done("clean") /\ text = CurrencyInput) => out = CurrencyExpected
    /\ (Done("format") /\ text = CurrencyInput) => out = <<"\\">> \o CurrencyExpected

\* C10, its case: _clean_line has returned "$416B" for "$ 4 1 6 B".
C10_Witness ==
    /\ Done("clean")
    /\ text = CurrencyInput
    /\ out = CurrencyExpected

\* C11: the dashboard normalizer turns "price is 3 . 5 percent" (and the
\* same sentence with "3. 5") into "price is 3.5 percent": the decimal
\* point is closed up and the space before the following word is kept.
C11_DecimalExample ==
    Done("format") /\ text \in {DecimalInput, DecimalInputTight}
        => out = DecimalExpected

\* A word of letters, one space, and the same word again.
IsDoubledWord(s) ==
    /\ Len(s) % 2 = 1
    /\ Len(s) >= 3
    /\ s[(Len(s) + 1) \div 2] = " "
    /\ \A n \in 1..(Len(s) \div 2) :
          s[n] \in Letters /\ s[n + (Len(s) + 1) \div 2] = s[n]

\* C12: the workflow normalizer turns "$416B $416B in revenue" into
\* "$416B in revenue", and a token followed by whitespace and the identical
\* token collapses to one occurrence whatever follows the second one (here:
\* a doubled word at the end of the text becomes the single word).
C12_DuplicateTokenCollapses ==
    Done("normalize") =>
        /\ text = DuplicateInput => out = DuplicateExpected
        /\ IsDoubledWord(text) => out = SubSeq(text, 1, Len(text) \div 2)

\* C13: the workflow normalizer turns "N V D A reported strong growth" into
\* "NVDA reported strong growth": the spaced letters are squashed into one
\* word and the rest of the sentence is returned unchanged.
C13_TickerExample ==
    Done("normalize") /\ text = TickerInput => out = TickerExpected

\* C14: for the empty text and every text made only of spaces, tabs and
\* newlines, both normalizers return the empty text.
C14_BlankGivesEmpty ==
    (Done("format") \/ Done("normalize")) /\ text \in Blanks => out = <<>>

C14_Witness ==
    Done("normalize") /\ text = <<" ", "\t", "\n">> /\ out = <<>>

(***************************************************************************)
(* The claims about the workflow.                                          *)
(***************************************************************************)
\* The narrative fields of a cleaned company, stock analysis, ranking and
\* portfolio are the normalized fields of what the agent returned.
CompanyIsNormalized(clean, agent) ==
    /\ clean.market_research = _normalize_text_block(agent.market_research)
    /\ clean.financial_analysis = _normalize_text_block(agent.financial_analysis)
    /\ clean.risk_assessment = _normalize_text_block(agent.risk_assessment)

StockIsNormalized(clean, agent) ==
    /\ clean.overview = _normalize_text_block(agent.overview)
    /\ clean.key_recommendations = _normalize_text_block(agent.key_recommendations)
    /\ Len(clean.companies) = Len(agent.companies)
    /\ \A n \in 1..Len(agent.companies) :
          CompanyIsNormalized(clean.companies[n], agent.companies[n])

RankingIsNormalized(clean, agent) ==
    /\ clean.ranked_companies = _normalize_text_block(agent.ranked_companies)
    /\ clean.investment_rationale = _normalize_text_block(agent.investment_rationale)
    /\ clean.risk_evaluation = _normalize_text_block(agent.risk_evaluation)
    /\ clean.growth_potential = _normalize_text_block(agent.growth_potential)

PortfolioIsNormalized(clean, agent) ==
    /\ clean.allocation_strategy = _normalize_text_block(agent.allocation_strategy)
    /\ clean.investment_thesis = _normalize_text_block(agent.investment_thesis)
    /\ clean.risk_management = _normalize_text_block(agent.risk_management)
    /\ clean.final_recommendations =
          _normalize_text_block(agent.final_recommendations)

\* The identifier fields of a stock analysis are normalized too.
IdentifiersAreNormalized(clean, agent) ==
    /\ clean.company_symbols = _normalize_text_block(agent.company_symbols)
    /\ \A n \in 1..Len(agent.companies) :
          /\ clean.companies[n].company_name =
                _normalize_text_block(agent.companies[n].company_name)
          /\ clean.companies[n].symbol =
                _normalize_text_block(agent.companies[n].symbol)

\* The narrative fields in the prompts of the second and third stage.
PromptsAreNormalized ==
    /\ Len(prompts) >= 2 =>
          prompts[2].key_recommendations =
              _normalize_text_block(raw.stock[1].key_recommendations)
    /\ Len(prompts) >= 3 => RankingIsNormalized(prompts[3], raw.ranking[1])

\* The narrative fields in the report files.
FilesAreNormalized ==
    /\ Len(files) >= 1 => StockIsNormalized(files[1].text, raw.stock[1])
    /\ Len(files) >= 2 => RankingIsNormalized(files[2].text, raw.ranking[1])
    /\ Len(files) >= 3 => PortfolioIsNormalized(files[3].text, raw.portfolio[1])

\* The narrative fields in the WorkflowResult.
ResultIsNormalized ==
    result # None =>
        /\ StockIsNormalized(result[1].stock_analysis, raw.stock[1])
        /\ RankingIsNormalized(result[1].investment_ranking, raw.ranking[1])
        /\ PortfolioIsNormalized(result[1].portfolio_allocation, raw.portfolio[1])
        /\ result[1].summary.allocation_strategy =
              _normalize_text_block(raw.portfolio[1].allocation_strategy)

\* C15 (as amended): every narrative field of every stage result (overview,
\* key_recommendations, each company's market_research, financial_analysis
\* and risk_assessment, the four ranking fields and the four portfolio
\* fields) has been passed through _normalize_text_block before it is used
\* in the next stage's prompt, written to a report file or returned in the
\* WorkflowResult.
C15_NarrativeFieldsNormalized ==
    PromptsAreNormalized /\ FilesAreNormalized /\ ResultIsNormalized

\* C15 (as stated): the narrative fields are normalized and no raw agent
\* text at all reaches the next prompt, a report file or the WorkflowResult,
\* the identifier fields that the agent returned included.
C15_NoRawAgentText ==
    /\ C15_NarrativeFieldsNormalized
    /\ Len(prompts) >= 2 =>
          /\ prompts[2].company_symbols =
                _normalize_text_block(raw.stock[1].company_symbols)
          /\ \A n \in 1..Len(prompts[2].company_details) :
                prompts[2].company_details[n].company_name =
                    _normalize_text_block(raw.stock[1].companies[n].company_name)
    /\ Len(files) >= 1 =>
          \A n \in 1..Len(files[1].text.companies) :
              files[1].text.companies[n].company_name =
                  _normalize_text_block(raw.stock[1].companies[n].company_name)
    /\ result # None =>
          IdentifiersAreNormalized(result[1].stock_analysis, raw.stock[1])

C15_Witness ==
    /\ wpc = "returned"
    /\ Len(files) = 3
    /\ Len(raw.stock[1].companies) = 1
    /\ raw.stock[1].overview # result[1].stock_analysis.overview
    /\ raw.ranking[1].growth_potential # result[1].investment_ranking.growth_potential
    /\ raw.portfolio[1].allocation_strategy # files[3].text.allocation_strategy

RECURSIVE ExpectedSymbols(_)
\* The non-blank entries, each stripped and upper-cased, in their order.
ExpectedSymbols(given) ==
    IF given = <<>> THEN <<>>
    ELSE (IF strip(Head(given)) = <<>> THEN <<>>
          ELSE <<upper(strip(Head(given)))>>) \o ExpectedSymbols(Tail(given))

\* Every entry of the list is blank (so is the empty list).
AllBlank(given) == \A n \in 1..Len(given) : strip(given[n]) = <<>>

\* A request holds the expected symbols: never none, none blank, none with a
\* lower-case letter.
SymbolsAreNormalized ==
    /\ request[1].symbols = ExpectedSymbols(call.symbols)
    /\ request[1].symbols # <<>>
    /\ \A n \in 1..Len(request[1].symbols) :
          /\ request[1].symbols[n] # <<>>
          /\ \A k \in 1..Len(request[1].symbols[n]) :
                request[1].symbols[n][k] \notin Lower \cup SpaceChars

\* C16 (as stated): constructing a WorkflowRequest either fails with a
\* ValueError whose message contains "At least one ticker symbol is
\* required", when the list is empty or every entry is blank, or yields
\* exactly the non-blank entries, stripped and upper-cased, in input order.
C16_RequiredMessageOrSymbols ==
    wpc # "start" =>
        IF AllBlank(call.symbols)
        THEN request = None /\ error = Some(RequiredMessage)
        ELSE request # None /\ SymbolsAreNormalized

\* C16 (as amended): the construction fails with a ValueError when the list
\* is empty (the error of the field's minimum length) or every entry of a
\* non-empty list is blank (the message then contains "At least one ticker
\* symbol is required"); otherwise it yields exactly the non-blank entries,
\* stripped and upper-cased, in input order.
C16_ErrorOrSymbols ==
    wpc # "start" =>
        IF AllBlank(call.symbols)
        THEN /\ request = None
             /\ error = IF call.symbols = <<>> THEN Some(TooShortMessage)
                        ELSE Some(RequiredMessage)
        ELSE request # None /\ SymbolsAreNormalized

C16_Witness ==
    /\ wpc = "constructed"
    /\ call.symbols = << <<" ", "a">>, <<" ">> >>
    /\ request[1].symbols = << <<"A">> >>

\* The write_reports of the request as it was constructed.
OwnWriteReports ==
    IF call.write_reports = None THEN FALSE ELSE call.write_reports[1]

\* The explicit argument of run when it is not None, else the request's own.
EffectiveWriteReports ==
    IF call.override # None THEN call.override[1] ELSE OwnWriteReports

\* C17: a request built without write_reports has it False; run follows
\* the explicit write_reports argument when it is not None and the
\* request's own value otherwise; report_paths is None exactly when the
\* effective flag is False, and is the list of the three written report
\* paths (stock, ranking, portfolio) when it is True.
C17_ReportsFollowEffectiveFlag ==
    /\ wpc = "constructed" /\ call.write_reports = None =>
          request[1].write_reports = FALSE
    /\ wpc = "returned" =>
          /\ result[1].report_paths = None <=> ~EffectiveWriteReports
          /\ EffectiveWriteReports =>
                /\ result[1].report_paths = Some(ReportNames)
                /\ Len(files) = 3
                /\ \A n \in 1..3 : files[n].path = ReportNames[n]
          /\ ~EffectiveWriteReports => files = <<>>

C17_Witness ==
    /\ wpc = "returned"
    /\ call.write_reports = Some(TRUE)
    /\ call.override = Some(FALSE)
    /\ result[1].report_paths = None
    /\ files = <<>>

\* The agents, in the order of their stages.
StageAgents == <<"Stock Analyst", "Research Analyst", "Investment Lead">>

\* C18: the ranking stage starts only after the stock-analysis stage has
\* returned its cleaned result, the portfolio stage only after the ranking
\* stage has returned, and report files are written only after all three
\* stages have returned; if a stage raises, no later stage runs, no report
\* file is written and no WorkflowResult is returned.
C18_StagesStrictlyOrdered ==
    /\ Len(prompts) <= 3
    /\ \A n \in 1..Len(prompts) : prompts[n].agent = StageAgents[n]
    /\ Len(prompts) >= 2 => raw.stock # None /\ stock_analysis # None
    /\ Len(prompts) < 2 => ranking = None
    /\ Len(prompts) < 3 => portfolio = None
    /\ Len(prompts) >= 3 => raw.ranking # None /\ ranking # None
    /\ files # <<>> \/ result # None =>
          stock_analysis # None /\ ranking # None /\ portfolio # None
    /\ \A n \in 1..3 :
          error = Some(StageAgents[n]) =>
              /\ wpc = "raised"
              /\ Len(prompts) = n
              /\ files = <<>>
              /\ result = None

C18_Witness ==
    /\ error = Some("Research Analyst")
    /\ Len(prompts) = 2
    /\ stock_analysis # None
    /\ files = <<>>
    /\ result = None

\* Two numbers of two or more digits each, separated by one space.
IsTwoNumbers(s) ==
    \E k \in 2..(Len(s) - 3) :
        /\ s[k + 1] = " "
        /\ \A n \in 1..Len(s) : n # k + 1 => s[n] \in Digits

\* C19: _clean_line removes whitespace between digits only where the split
\* pieces are single digits ("4 1 6" becomes "416"); two multi-digit numbers
\* separated by whitespace ("2023 2024", "10 20") are never merged.
C19_DigitGroupsScoped ==
    Done("clean") =>
        /\ text = DigitsInput => out = DigitsExpected
        /\ IsTwoNumbers(text) => out = text

\* [*_]: the markdown emphasis markers
Emphasis == {"*", "_"}

\* C20: in the result of _clean_line every comma, period, semicolon, colon
\* or percent sign is followed by exactly one space, unless it ends the line
\* or is immediately followed by another punctuation mark or an emphasis
\* marker; in those exempt cases no space is inserted after it, so "etc.,"
\* and "50%." keep their adjacent punctuation and no result holds two
\* punctuation marks with a lone space between them.
C20_PunctuationSpacing ==
    Done("clean") =>
        /\ \A n \in 1..Len(out) :
              out[n] \in Punct =>
                  \/ n = Len(out)
                  \/ out[n + 1] \in Punct \cup Emphasis
                  \/ out[n + 1] = " " /\ ~isspace(At(out, n + 2))
        /\ text \in {EtcInput, PercentInput} => out = text
        /\ \A n \in 1..(Len(out) - 2) :
              ~(out[n] \in Punct /\ out[n + 1] = " " /\ out[n + 2] \in Punct)

(***************************************************************************)
(* C21 .. C30                                                              *)
(***************************************************************************)
\* The helper f has returned out for text.
Returned(f) == fn = f /\ pc = "returned"

\* C21: the result of _clean_line, and the result of _normalize_text_block,
\* never holds a whitespace character immediately before a comma, period,
\* semicolon, colon or percent sign.
C21_NoSpaceBeforePunctuation ==
    (Done("clean") \/ Done("normalize")) =>
        \A n \in 2..Len(out) : out[n] \in Punct => ~isspace(out[n - 1])

\* The leading whitespace of a line.
Indentation(line) == SubSeq(line, 1, Len(line) - Len(lstrip(line)))

\* The first non-whitespace character of the line is a bullet glyph and a
\* whitespace character follows it.
StartsWithSpacedGlyph(line) ==
    LET stripped == lstrip(line)
    IN  At(stripped, 1) \in BULLET_CHARS /\ isspace(At(stripped, 2))

\* C22: _normalize_bullet_line rewrites a line whose first non-whitespace
\* character is a bullet glyph followed by whitespace to the same leading
\* indentation, then "- ", then the remainder with its leading whitespace
\* stripped; every other line (glyph directly followed by a non-space
\* character, glyph as the last character, no glyph) is returned unchanged.
C22_BulletLineRewritten ==
    Returned("bullet") =>
        IF StartsWithSpacedGlyph(text)
        THEN out = Indentation(text) \o <<"-", " ">>
                       \o lstrip(Tail(lstrip(text)))
        ELSE out = text

\* The line, its leading whitespace stripped, starts with one of the ASCII
\* list prefixes, with "#", with a bullet glyph, or with one or more digits,
\* a period and a character of the set after.
IsMarked(line, after) ==
    LET stripped == lstrip(line)
        d == SkipClass(stripped, 1, Digits)
    IN  \/ At(stripped, 1) \in {"-", "*", "+"} /\ At(stripped, 2) = " "
        \/ d > 1 /\ At(stripped, d) = "." /\ At(stripped, d + 1) \in after
        \/ At(stripped, 1) = "#"
        \/ At(stripped, 1) \in BULLET_CHARS

\* C23 as stated: _is_list_item returns true exactly when the stripped line
\* starts with "- ", "* " or "+ ", with digits followed by "." and a space,
\* with "#", or with a bullet glyph.
C23_ListItemNumberedBySpace ==
    Returned("list") => (out <=> IsMarked(text, {" "}))

\* C23, amended: the character after the period of a numbered marker is
\* any whitespace character, a tab included.
C23_ListItemNumberedByWhitespace ==
    Returned("list") => (out <=> IsMarked(text, SpaceChars))

\* C23, its case: a numbered item of two digits with a tab after the period
\* is a list item.
C23_Witness ==
    /\ Returned("list")
    /\ text = <<"1", "2", ".", "\t", "x">>
    /\ out = TRUE

\* The characters of a text that are not whitespace, in order.
IsVisible(c) == ~isspace(c)
Visible(s) == SelectSeq(s, IsVisible)

\* A bullet glyph stands at n, whitespace follows it, and n is not the
\* start of a line.
InlineGlyphAt(s, n) ==
    /\ s[n] \in BULLET_CHARS
    /\ isspace(At(s, n + 1))
    /\ n > 1
    /\ s[n - 1] # "\n"

\* C24: _separate_inline_bullets puts every bullet glyph that is followed by
\* whitespace at the start of a line; it moves or drops no visible
\* character, returns a text without such a mid-line glyph unchanged, and
\* removes no blank line that separated two blocks of the text.
C24_InlineBulletsSeparated ==
    Returned("separate") =>
        /\ \A n \in 1..Len(out) : ~InlineGlyphAt(out, n)
        /\ Visible(out) = Visible(text)
        /\ (\A n \in 1..Len(text) : ~InlineGlyphAt(text, n)) => out = text
        /\ Len(ParagraphBlocks(out)) >= Len(ParagraphBlocks(text))

\* The number of positions of s that hold c.
Count(s, c) == Cardinality({n \in 1..Len(s) : s[n] = c})

\* The dollar signs of s that no backslash precedes.
Unescaped(s) == {n \in 1..Len(s) : s[n] = "$" /\ At(s, n - 1) # "\\"}

\* C25: in every result of _format_text_block each dollar sign is
\* immediately preceded by a backslash; the pass puts one backslash before
\* each dollar sign that had none and none before one that had, so that
\* applying the pass to the result changes nothing.
C25_DollarsEscapedOnce ==
    Done("format") =>
        /\ Unescaped(out) = {}
        /\ Count(out, "\\") = Count(text, "\\") + Cardinality(Unescaped(text))
        /\ ReSub("dollar", out) = out

\* C25, its case: an escaped dollar sign followed by one that is not.
C25_Witness ==
    /\ Done("format")
    /\ text = <<"\\", "$", "$">>
    /\ out = <<"\\", "$", "\\", "$">>

FetchIndices(ok) ==
    SelectSeq([n \in 1..Len(tickers) |-> n],
              LAMBDA n : (fetches[n] = "ok") <=> ok)

\* The error string begins with the upper-cased symbol and ": ".
IsPrefixedBy(entry, symbol) ==
    /\ Len(entry) >= Len(symbol) + 2
    /\ SubSeq(entry, 1, Len(symbol) + 2) = upper(symbol) \o <<":", " ">>

\* C26: collect_market_snapshots never raises and continues past a failed
\* fetch: when it returns, every symbol has given one entry, a snapshot if
\* its fetch returned and an error string prefixed with the upper-cased
\* symbol if it raised, so the two lengths add up to the number of symbols,
\* and both lists are in the order of the symbols; an empty list of symbols
\* gives two empty lists.
C26_OneEntryPerSymbol ==
    /\ mpc # "raised"
    /\ mpc = "loop" => Len(snapshots) + Len(errors) = position - 1
    /\ mpc = "returned" =>
          /\ Len(snapshots) + Len(errors) = Len(tickers)
          /\ snapshots = [k \in 1..Len(FetchIndices(TRUE)) |->
                             Snapshot(tickers[FetchIndices(TRUE)[k]])]
          /\ Len(errors) = Len(FetchIndices(FALSE))
          /\ \A k \in 1..Len(errors) :
                IsPrefixedBy(errors[k], tickers[FetchIndices(FALSE)[k]])
          /\ tickers = <<>> => snapshots = <<>> /\ errors = <<>>

\* C26, its case: the first fetch raised and the loop went on to the second
\* symbol, whose fetch returned.
C26_Witness ==
    /\ mpc = "returned"
    /\ tickers = << <<"a">>, <<"B">> >>
    /\ fetches = <<"empty", "ok">>
    /\ snapshots = <<[ticker |-> <<"B">>]>>
    /\ Len(errors) = 1

\* C28: the session fields workflow_result and error are never both set; a
\* successful call stores the result and clears the error, a failed call
\* stores the error and clears the result stored before, and a click
\* without a non-blank symbol leaves both fields as they were.
C28_SessionFieldsExclusive ==
    [][/\ ~(workflow_result' # None /\ session_error' # None)
       /\ (dpc = "answered" /\ dpc' = "idle") =>
              IF reply[1].status = 200
              THEN workflow_result' = reply[1].result /\ session_error' = None
              ELSE session_error' # None /\ workflow_result' = None
       /\ (dpc = "idle" /\ dpc' = "idle") =>
              UNCHANGED <<workflow_result, session_error>>]_vars

\* C29: no report file is written by two runs, so the files of a finished
\* run are not overwritten by another run.
C29_NoSharedReportPath ==
    \A f \in ReportFiles : Cardinality(disk[f]) <= 1

\* The response that the claim gives for an outcome of workflow.run.
MappedResponse(o) ==
    CASE o.kind = "returned" -> JsonResponse(200, o.result, None)
      [] o.kind = "ValueError" -> JsonResponse(400, None, Some(o.message))
      [] o.kind = "Exception" ->
             JsonResponse(500, None, Some("Workflow execution failed"))

\* C30: /analyze answers every outcome of workflow.run with exactly one
\* response: the result when run returned, 400 with the message of the
\* exception when it raised a ValueError, 500 with the fixed detail when it
\* raised any other exception; no outcome is left without a response.
C30_OutcomeMappedOnce ==
    /\ outcome # None <=> api_response # None
    /\ outcome # None => api_response = Some(MappedResponse(outcome[1]))

\* C30, its case: run raised a ValueError and analyze answered 400 with its
\* message.
C30_Witness ==
    /\ outcome # None
    /\ outcome[1].kind = "ValueError"
    /\ api_response = Some(JsonResponse(400, None, Some("No data for symbol")))

====
